---- MODULE Spec2Model ----
(***************************************************************************)
(* A model of protoserv: the session engine (basic_session and its two     *)
(* derived sessions), the session pool, and the request/reply dispatch     *)
(* table.                                                                  *)
(*                                                                         *)
(* The reactor is single threaded: every completion handler runs to its    *)
(* end before the next one starts, so each action below is one whole       *)
(* completion handler (or one whole call made by user code), the calls it  *)
(* makes included.  The operators that model methods take the "world" w    *)
(* (all the mutable state, as a record) and the slot i of the session      *)
(* they act on, and return the world after the call.                       *)
(***************************************************************************)
EXTENDS Integers, Sequences, FiniteSets, TLC

VARIABLES
    mem,        \* slot -> the session object's fields
    io,         \* slot -> the socket and the asynchronous operations in flight
    hist,       \* slot -> history of the session (notifications, sends, writes)
    free_list,  \* the client pool's free list (a stack of slots)
    peer_up,    \* the remote endpoint of the outbound session accepts connections
    running,    \* io_service::run has not returned
    used,       \* what the environment has done so far: user calls, frames sent by peers
    crashed,    \* the process was terminated (a failed assert, a fault)
    dt,         \* the dispatch table
    app,        \* the module, its components and the events delivered to them
    probe,      \* a protocol, a subprotocol of it, and the tags of their types
    tm,         \* a Timer: paused_, its waits and the calls of its handler
    rd,         \* an async_stdin: its requests, worker thread, keepalive timer and handler calls
    pool        \* the object_pool of the pool specification

vars == <<mem, io, hist, free_list, peer_up, running, used, crashed, dt, app,
          probe, tm, rd, pool>>

(***************************************************************************)
(* Bounds of the model.                                                    *)
(***************************************************************************)
\* capacity reserved for the read buffer, in bytes
ReadReserve == 8
\* frames the peers send
MaxPeerFrames == 2
\* calls user code makes on sessions outside of the sessions' handlers
MaxCalls == 1
\* times the remote endpoint of the outbound session comes up
MaxPeerUps == 2
\* connections the remote endpoint accepts
MaxConnects == 2
\* handlers user code subscribes to the dispatch table
MaxSubs == 3
\* frames handed to the dispatch table
MaxDispatch == 3

\* The model follows one address of the pool: the sessions created there one
\* after the other.  Sessions at different addresses share nothing but the
\* free list.
SlotOrder == <<1>>
Slots == { SlotOrder[k] : k \in 1..Len(SlotOrder) }

\* size of the frame header: two uint16_t
HeaderSize == 4

\* the largest frame send() accepts: numeric_limits<uint16_t>::max()
MaxFrame == 65535

Min(a, b) == IF a < b THEN a ELSE b

(***************************************************************************)
(* rolling_buffer: head_, tail_, the capacity of buf_ and the bytes        *)
(* between tail_ and head_ (the only ones ever read).                      *)
(***************************************************************************)
RollingBuffer(cap) == [head |-> 0, tail |-> 0, cap |-> cap, data |-> <<>>]

free_capacity(rb) == rb.cap - rb.head

\* the bytes were stored at end() by the read; grow() makes them part of the buffer
grow(rb, bytes) == [rb EXCEPT !.head = @ + Len(bytes), !.data = @ \o bytes]

erase(rb, sz) ==
    [rb EXCEPT !.tail = @ + sz, !.data = SubSeq(@, sz + 1, Len(@))]

compact(rb) == [rb EXCEPT !.head = @ - rb.tail, !.tail = 0]

\* grow_capacity() that compacts and never reallocates
grow_capacity_compact_only(rb) == IF rb.tail > 0 THEN compact(rb) ELSE rb

grow_capacity(rb) ==
    IF rb.tail > 0 THEN compact(rb)
    ELSE IF rb.head = rb.cap THEN [rb EXCEPT !.cap = 2 * @]
    ELSE rb

(***************************************************************************)
(* double_writebuf: two write buffers and the index of the current one.    *)
(* A writebuf is modelled by the frames appended to it since its last      *)
(* clear() (every frame has at least HeaderSize bytes, so the buffer is    *)
(* empty() exactly when it holds no frame).                                *)
(***************************************************************************)
DoubleWritebuf == [buf |-> <<<<>>, <<>>>>, cur |-> 0]

current(wb) == wb.buf[wb.cur + 1]

wb_append(wb, f) == [wb EXCEPT !.buf[wb.cur + 1] = Append(@, f)]

wb_empty(wb) == current(wb) = <<>>

\* flip() returns the current buffer (here: its index) and makes the other current
flip_ret(wb) == wb.cur

flip(wb) == [wb EXCEPT !.cur = 1 - @]

\* writebuf::clear on buffer b
wb_clear(wb, b) == [wb EXCEPT !.buf[b + 1] = <<>>]

(***************************************************************************)
(* protobuf_packet::send: the frame is the total size and the message type *)
(* as little-endian uint16_t, then the payload.                            *)
(***************************************************************************)
U16Bytes(n) == <<(n % 65536) % 256, (n % 65536) \div 256>>

\* send with the size of the payload in the header instead of the size of
\* the frame: the fault C14 guards against
EncodeFrame_payload_size(tag, payload) ==
    U16Bytes(Len(payload)) \o U16Bytes(tag) \o payload

EncodeFrame(tag, payload) ==
    U16Bytes(HeaderSize + Len(payload)) \o U16Bytes(tag) \o payload

\* reinterpret_cast<uint16_t*>(buf)[k] for the bytes of data at offset pos
U16At(data, pos, k) == data[pos + 2 * k + 1] + 256 * data[pos + 2 * k + 2]

\* the frames a peer sends in this model: an empty message of type 1
PeerFrames == { EncodeFrame(1, <<>>) }

\* The tags and payloads of the frames of the framing specifications: the
\* ends of the range of tags and a tag whose two bytes differ; no payload, one
\* byte, and bytes that read as a header.
FrameTags == {0, 258, 65535}
FramePayloads == { <<>>, <<9>>, <<4, 0, 1, 0, 7>> }

(***************************************************************************)
(* The state of one slot.                                                  *)
(***************************************************************************)
\* basic_session and derived classes: the fields after construction.
\* idle stands for clock_type::now() - last_activity_ > duration; a default
\* constructed last_activity_ is the epoch.
NewSession(kind) ==
    [ kind                 |-> kind,
      connected            |-> FALSE,
      write_in_progress    |-> FALSE,
      outstanding_ops      |-> 0,
      idle                 |-> TRUE,
      readbuf              |-> RollingBuffer(ReadReserve),
      writebuf             |-> DoubleWritebuf,
      refcount             |-> 0,
      already_disconnected |-> FALSE,
      endpoint_set         |-> FALSE ]

\* The socket and what asio holds for the session at this address.  rd_live
\* and wr_live are operations on the open socket; rd_dead, wr_dead and
\* conn_failed are operations that will complete with an error (their socket
\* was closed under them, or they were started on a socket that cannot serve
\* them).  wr_live lists the buffer each write captured.
NewIo ==
    [ sock        |-> "closed",
      peer_gone   |-> FALSE,
      inbox       |-> <<>>,
      rd_live     |-> 0,
      rd_dead     |-> 0,
      wr_live     |-> <<>>,
      wr_dead     |-> 0,
      conn_inprog |-> 0,
      conn_failed |-> 0,
      timers      |-> 0 ]

\* History of one session: log is the sequence of notifications delivered to
\* the owner ("connected", "message", "disconnected") and of kill() calls
\* ("kill"); nsent counts the frames send() accepted and numbers them; wire is
\* the sequence of frames handed to async_write; removed counts remove_session
\* calls and rm_state is the session's state at the last of them; reconnects
\* is the set of the kinds of calls of server_session::reconnect: where to,
\* and whether kill() had been called on the session; asserts is
\* the set of the code's assert()s that failed; uaf tells that code ran on the
\* session object after its destruction.  msgs is the sequence of the
\* messages passed to on_message, peer_sent that of the (tag, payload) the
\* peer passed to its send(), peer_bytes the bytes the peer wrote; spin tells
\* that a handler of the session entered a loop it never leaves.  waits is
\* the set of the results of the backoff waits whose handler has run.
\* dropped tells that send() was called while connected_ was false, stale
\* that flip() made current a buffer that was not empty, moved that
\* grow_capacity() ran while a read of the session was outstanding.
NewHist ==
    [ log       |-> <<>>,
      nsent     |-> 0,
      wire      |-> <<>>,
      removed   |-> 0,
      rm_state  |-> [connected |-> FALSE, outstanding_ops |-> 0, refcount |-> 0],
      tokens    |-> 0,
      asserts   |-> {},
      uaf       |-> FALSE,
      reconnects |-> {},
      waits     |-> {},
      msgs      |-> <<>>,
      peer_sent |-> <<>>,
      peer_bytes |-> <<>>,
      spin      |-> FALSE,
      dropped   |-> FALSE,
      stale     |-> FALSE,
      moved     |-> FALSE ]

World == [mem |-> mem, io |-> io, hist |-> hist, free |-> free_list]

Range(s) == { s[k] : k \in 1..Len(s) }

\* fixed_object_pool::allocated: the slot is not on the free list
allocated(w, i) == i \notin Range(w.free)

\* a member function runs on the object at slot i
Touch(w, i) == IF allocated(w, i) THEN w ELSE [w EXCEPT !.hist[i].uaf = TRUE]

Log(w, i, e) == [Touch(w, i) EXCEPT !.hist[i].log = Append(@, e)]

AssertFailed(w, i, what) == [w EXCEPT !.hist[i].asserts = @ \cup {what}]

(***************************************************************************)
(* socket_.close(): every operation in flight on the socket completes      *)
(* with operation_aborted; what the peer sent and was not read is dropped. *)
(***************************************************************************)
CloseSocket(w, i) ==
    [w EXCEPT !.io[i] =
        [@ EXCEPT !.sock = "closed",
                  !.peer_gone = FALSE,
                  !.inbox = <<>>,
                  !.rd_dead = @ + w.io[i].rd_live,
                  !.rd_live = 0,
                  !.wr_dead = @ + Len(w.io[i].wr_live),
                  !.wr_live = <<>>,
                  !.conn_failed = @ + w.io[i].conn_inprog,
                  !.conn_inprog = 0]]

schedule_operation(w, i) == [Touch(w, i) EXCEPT !.mem[i].outstanding_ops = @ + 1]

complete_operation(w, i) ==
    LET w1 == IF w.mem[i].outstanding_ops > 0 THEN Touch(w, i)
              ELSE AssertFailed(Touch(w, i), i, "outstanding_ops_ > 0")
    IN  [w1 EXCEPT !.mem[i].outstanding_ops = @ - 1]

refresh_activity(w, i) == [w EXCEPT !.mem[i].idle = FALSE]

(***************************************************************************)
(* basic_session::async_connect on the socket, towards remote_endpoint_.   *)
(* A socket that is closed is opened by asio; a connect on a socket that   *)
(* is connecting or connected fails at once (EALREADY, EISCONN), and so    *)
(* does a connect to a default constructed endpoint (0.0.0.0:0).           *)
(***************************************************************************)
async_connect(w, i) ==
    IF w.io[i].sock \in {"closed", "open"}
    THEN IF w.mem[i].endpoint_set
         THEN [w EXCEPT !.io[i].sock = "connecting", !.io[i].conn_inprog = 1]
         ELSE [w EXCEPT !.io[i].sock = "open", !.io[i].conn_failed = @ + 1]
    ELSE [w EXCEPT !.io[i].conn_failed = @ + 1]

\* server_session::reconnect
reconnect(w, i) ==
    async_connect(
        [w EXCEPT !.hist[i].reconnects = @ \cup
            {[to     |-> IF w.mem[i].endpoint_set THEN "endpoint" ELSE "default",
              killed |-> \E k \in 1..Len(w.hist[i].log) : w.hist[i].log[k] = "kill"]}],
        i)

\* server_session::connect
connect(w, i) == reconnect([w EXCEPT !.mem[i].endpoint_set = TRUE], i)

\* app_server::remove_session(client_session*): object_pool::destroy runs the
\* destructor (which closes the socket) and pushes the slot on the free list
remove_session(w, i) ==
    LET w1 == [w EXCEPT !.hist[i].removed = Min(@ + 1, 2),
                        !.hist[i].rm_state =
                            [connected       |-> w.mem[i].connected,
                             outstanding_ops |-> w.mem[i].outstanding_ops,
                             refcount        |-> w.mem[i].refcount]]
        w2 == CloseSocket(w1, i)
    IN  [w2 EXCEPT !.free = <<i>> \o @]

\* basic_client_session::handle_disconnected_session
client_handle_disconnected_session(w, i) ==
    LET w1 == IF w.mem[i].already_disconnected
              THEN AssertFailed(w, i, "!already_disconnected_")
              ELSE w
        w2 == [w1 EXCEPT !.mem[i].already_disconnected = TRUE]
    IN  IF w2.mem[i].refcount = 0 THEN remove_session(w2, i) ELSE w2

\* server_session::handle_disconnected_session
server_handle_disconnected_session(w, i) == reconnect(w, i)

handle_disconnected_session(w, i) ==
    IF w.mem[i].kind = "client"
    THEN client_handle_disconnected_session(w, i)
    ELSE server_handle_disconnected_session(w, i)

\* notify_disconnected: the owner's on_disconnected
notify_disconnected(w, i) == Log(w, i, "disconnected")

\* orderly_disconnect without its test of connected(): the fault C6 guards
\* against
orderly_disconnect_untested(w, i) ==
    LET w1 == notify_disconnected(
                  [CloseSocket(w, i) EXCEPT !.mem[i].connected = FALSE], i)
    IN  IF w1.mem[i].outstanding_ops = 0
        THEN handle_disconnected_session(w1, i)
        ELSE w1

\* basic_session::orderly_disconnect
orderly_disconnect(w, i) ==
    LET w1 == IF w.mem[i].connected
              THEN notify_disconnected(
                       [CloseSocket(w, i) EXCEPT !.mem[i].connected = FALSE], i)
              ELSE w
    IN  IF w1.mem[i].outstanding_ops = 0
        THEN handle_disconnected_session(w1, i)
        ELSE w1

\* basic_session::close
close(w, i) == IF w.mem[i].connected THEN orderly_disconnect(w, i) ELSE w

\* basic_session::kill
kill(w, i) ==
    Log([CloseSocket(w, i) EXCEPT !.mem[i].connected = FALSE], i, "kill")

\* disconnect_inactive without its test of the time since the last activity
disconnect_inactive_any(w, i) == orderly_disconnect(w, i)

\* basic_session::disconnect_inactive
disconnect_inactive(w, i) ==
    IF w.mem[i].idle THEN orderly_disconnect(w, i) ELSE w

(***************************************************************************)
(* Reads and writes.                                                       *)
(***************************************************************************)
\* An operation started on a socket that is not connected completes with an
\* error.
Usable(w, i) == w.io[i].sock = "connected"

\* basic_session::do_read: schedule_operation, then async_read_some
do_read(w, i) ==
    LET w0 == IF free_capacity(w.mem[i].readbuf) > 0 THEN w
              ELSE AssertFailed(w, i, "free_capacity() > 0")
        w1 == schedule_operation(w0, i)
    IN  IF Usable(w1, i)
        THEN [w1 EXCEPT !.io[i].rd_live = @ + 1]
        ELSE [w1 EXCEPT !.io[i].rd_dead = @ + 1]

\* writebuf_.flip() of session i
writebuf_flip(w, i) ==
    [w EXCEPT !.mem[i].writebuf = flip(@),
              !.hist[i].stale = @ \/ current(flip(w.mem[i].writebuf)) # <<>>]

\* basic_session::do_write(writebuf&): the frames of buffer b go to async_write
do_write_buf(w, i, b) ==
    LET w1 == schedule_operation(w, i)
        w2 == [w1 EXCEPT !.hist[i].wire = @ \o w.mem[i].writebuf.buf[b + 1]]
    IN  IF Usable(w2, i)
        THEN [w2 EXCEPT !.io[i].wr_live = Append(@, b)]
        ELSE [w2 EXCEPT !.io[i].wr_dead = @ + 1]

\* basic_session::do_write()
do_write(w, i) ==
    IF ~wb_empty(w.mem[i].writebuf)
    THEN do_write_buf(
             [writebuf_flip(w, i) EXCEPT !.mem[i].write_in_progress = TRUE],
             i, flip_ret(w.mem[i].writebuf))
    ELSE [w EXCEPT !.mem[i].write_in_progress = FALSE]

\* basic_session::send without the test of connected_
send_unchecked(w, i) ==
    LET f  == w.hist[i].nsent + 1
        w1 == [w EXCEPT !.mem[i].writebuf = wb_append(@, f),
                        !.hist[i].nsent = f]
    IN  IF ~w1.mem[i].write_in_progress THEN do_write(w1, i) ELSE w1

\* protobuf_packet::send and basic_session::send(buf, len): the frame is the
\* next one in the order of the calls
send(w, i) ==
    IF w.mem[i].connected
    THEN LET f  == w.hist[i].nsent + 1
             w1 == [w EXCEPT !.mem[i].writebuf = wb_append(@, f),
                             !.hist[i].nsent = f]
         IN  IF ~w1.mem[i].write_in_progress THEN do_write(w1, i) ELSE w1
    ELSE [w EXCEPT !.hist[i].dropped = TRUE]

\* basic_client_session::take_ownership (reference's constructor: addref)
take_ownership(w, i) ==
    [Touch(w, i) EXCEPT !.mem[i].refcount = @ + 1, !.hist[i].tokens = @ + 1]

\* reference::release and basic_client_session::release
release(w, i) ==
    LET wv == IF allocated(w, i) THEN w
              ELSE AssertFailed(Touch(w, i), i, "is_valid_session()")
        w0 == IF wv.mem[i].refcount > 0 THEN wv
              ELSE AssertFailed(wv, i, "refcount_ > 0")
        w1 == [w0 EXCEPT !.mem[i].refcount = @ - 1, !.hist[i].tokens = @ - 1]
    IN  IF w1.mem[i].refcount = 0 /\ w1.mem[i].already_disconnected
        THEN remove_session(w1, i)
        ELSE w1

\* ref = conn.take_ownership(), with ref a reference the user keeps:
\* reference's move assignment releases the session ref held before
assign_ref(w, i) ==
    LET w1 == take_ownership(w, i)
    IN  IF w.hist[i].tokens > 0 THEN release(w1, i) ELSE w1

(***************************************************************************)
(* User code.  A handler, or a callback that holds the session (a timer),  *)
(* makes one of these calls on the session.                                *)
(***************************************************************************)
UserCall(w, i, act) ==
    CASE act = "send"  -> send(w, i)
      [] act = "close" -> close(w, i)
      [] act = "kill"  -> kill(w, i)
      [] act = "take"  -> IF w.mem[i].kind = "client" THEN assign_ref(w, i) ELSE w
      [] act = "drop"  -> IF w.hist[i].tokens > 0 THEN release(w, i) ELSE w
      [] OTHER         -> w

\* what an on_connected handler does
ConnActs == {"none", "send"}
\* what an on_message handler does
MsgActs == {"none", "send", "close", "kill", "take", "drop"}
\* what user code does outside of the session's own handlers
TopActs == {"send", "close", "kill", "take", "drop"}

\* notify_connected: the owner's on_connected
notify_connected(w, i, act) == UserCall(Log(w, i, "connected"), i, act)

\* notify_message: the owner's on_message
notify_message(w, i, msg, act) ==
    UserCall([Log(w, i, "message") EXCEPT !.hist[i].msgs = Append(@, msg)], i, act)

\* basic_session::set_connected
set_connected(w, i, act) ==
    LET w0 == IF w.io[i].sock # "closed" THEN w
              ELSE AssertFailed(w, i, "socket_.is_open()")
    IN  refresh_activity(
            notify_connected([w0 EXCEPT !.mem[i].connected = TRUE], i, act), i)

\* basic_session::start
start(w, i, act) == do_write(do_read(set_connected(w, i, act), i), i)

\* protobuf_packet::handle_message on the header at offset pos: data is
\* &header[2], of which a handler reads size bytes
handle_message(w, i, data, pos, act) ==
    notify_message(w, i,
        [type |-> U16At(data, pos, 1),
         size |-> U16At(data, pos, 0) - HeaderSize,
         data |-> SubSeq(data, pos + HeaderSize + 1, pos + U16At(data, pos, 0))],
        act)

\* the loop of basic_session::parse_read_buffer: the world after the handlers
\* and the offset reached.  script lists what the handler of each message does.
\* With messageSize 0 buf does not advance and the loop delivers the same
\* header again, for ever: the handler of the read never returns (spin).
RECURSIVE ParseLoop(_, _, _, _, _)
ParseLoop(w, i, data, pos, script) ==
    IF Len(data) - pos >= HeaderSize
    THEN LET messageSize == U16At(data, pos, 0)
         IN  IF messageSize = 0
             THEN [w   |-> [handle_message(w, i, data, pos, "none")
                               EXCEPT !.hist[i].spin = TRUE],
                   pos |-> pos]
             ELSE IF messageSize <= Len(data) - pos
             THEN ParseLoop(
                      handle_message(w, i, data, pos,
                          IF script = <<>> THEN "none" ELSE Head(script)),
                      i, data, pos + messageSize,
                      IF script = <<>> THEN <<>> ELSE Tail(script))
             ELSE [w |-> w, pos |-> pos]
    ELSE [w |-> w, pos |-> pos]

\* parse_read_buffer that drops what it did not parse: the fault C15 guards
\* against
parse_read_buffer_clear(w, i, script) ==
    LET r == ParseLoop(w, i, w.mem[i].readbuf.data, 0, script)
    IN  [r.w EXCEPT !.mem[i].readbuf = erase(@, Len(w.mem[i].readbuf.data))]

\* basic_session::parse_read_buffer
parse_read_buffer(w, i, script) ==
    LET r == ParseLoop(w, i, w.mem[i].readbuf.data, 0, script)
    IN  [r.w EXCEPT !.mem[i].readbuf = erase(@, r.pos)]

\* basic_session::process_read_data
process_read_data(w, i, script) ==
    refresh_activity(parse_read_buffer(w, i, script), i)

\* the number of messages parse_read_buffer delivers from data (before it
\* spins, if it does)
RECURSIVE CountFrames(_, _)
CountFrames(data, pos) ==
    IF Len(data) - pos >= HeaderSize /\ U16At(data, pos, 0) <= Len(data) - pos
    THEN IF U16At(data, pos, 0) = 0 THEN 1
         ELSE 1 + CountFrames(data, pos + U16At(data, pos, 0))
    ELSE 0

\* The completion handler of do_read without error.  read_scheduler's
\* constructor starts the next read unless the buffer is full; its destructor,
\* at the end of the handler, grows the buffer and starts the postponed read.
read_completed(w, i, bytes, script) ==
    LET w1 == complete_operation(w, i)
        w2 == [w1 EXCEPT !.mem[i].readbuf = grow(@, bytes)]
        postpone == free_capacity(w2.mem[i].readbuf) = 0
        w3 == IF ~postpone THEN do_read(w2, i) ELSE w2
        w4 == process_read_data(w3, i, script)
    IN  IF postpone
        THEN do_read([w4 EXCEPT
                         !.mem[i].readbuf = grow_capacity(@),
                         !.hist[i].moved =
                             @ \/ w4.io[i].rd_live + w4.io[i].rd_dead > 0], i)
        ELSE w4

\* The completion handler of do_read with an error
read_failed(w, i) == orderly_disconnect(complete_operation(w, i), i)

\* The completion handler of do_write(buf) without error, for the write that
\* captured buffer b
write_completed(w, i, b) ==
    LET w1 == complete_operation(w, i)
        w2 == [w1 EXCEPT !.mem[i].writebuf = wb_clear(@, b)]
    IN  IF wb_empty(w2.mem[i].writebuf)
        THEN [w2 EXCEPT !.mem[i].write_in_progress = FALSE]
        ELSE do_write_buf(writebuf_flip(w2, i), i,
                          flip_ret(w2.mem[i].writebuf))

\* The completion handler of do_write(buf) with an error
write_failed(w, i) == orderly_disconnect(complete_operation(w, i), i)

\* The completion handler of server_session::reconnect's async_connect
connect_completed(w, i, act) == start(w, i, act)

\* ... with an error: a deadline_timer is armed, whose handler reconnects
connect_failed(w, i) == [w EXCEPT !.io[i].timers = @ + 1]

\* ~deadline_timer: a wait that is pending on the timer is cancelled
timer_destroyed(res) == IF res = "pending" THEN "aborted" ELSE res

\* The wait of that timer: the unique_ptr that owns the timer is a local of
\* the completion handler of async_connect, which returns as soon as it has
\* started the wait.
BackoffWait == timer_destroyed("pending")

\* the handler of that timer (it ignores its error code)
timer_fired(w, i) ==
    reconnect([w EXCEPT !.hist[i].waits = @ \cup {BackoffWait}], i)

(***************************************************************************)
(* Actions.  Each is one event of the reactor: a completion handler, or a  *)
(* call by user code (from a timer or another session's handler); the peer *)
(* and the clock are the environment.                                      *)
(***************************************************************************)
\* what went wrong so far: failed asserts and uses of destroyed sessions
Faults(w) == [i \in Slots |-> <<w.hist[i].asserts, w.hist[i].uaf>>]

\* The state after a handler that ends in world w.  A handler in which an
\* assert failed either ran to its end (NDEBUG) or aborted the process; one
\* that used a destroyed session has undefined behaviour: the memory of the
\* pool's slot is still there and the handler runs to its end, or the process
\* is terminated.
Apply(w) ==
    /\ ~crashed
    /\ \/ /\ mem' = w.mem
          /\ io' = w.io
          /\ hist' = w.hist
          /\ free_list' = w.free
          /\ crashed' = FALSE
       \/ /\ Faults(w) # Faults(World)
          /\ crashed' = TRUE
          /\ UNCHANGED <<mem, io, hist, free_list>>

\* app_server::do_accept's handler: clients_.create (fixed_object_pool::create
\* takes the head of the free list; the constructor initialises the fields),
\* then session->start().  Operations of an earlier session at this address
\* that have not completed yet stay with the address.
Accept(act) ==
    /\ running
    /\ free_list # <<>>
    /\ LET i == Head(free_list)
           w == [World EXCEPT
                    !.free = Tail(free_list),
                    !.mem[i] = NewSession("client"),
                    !.io[i] = [NewIo EXCEPT !.sock = "connected",
                                            !.rd_dead = io[i].rd_dead,
                                            !.wr_dead = io[i].wr_dead],
                    !.hist[i] = NewHist]
       IN  Apply(start(w, i, act))
    /\ UNCHANGED <<peer_up, running, used, dt, app, probe, tm, rd, pool>>

\* the peer sends a frame
PeerSend(i, f) ==
    /\ running /\ ~crashed
    /\ io[i].sock = "connected" /\ ~io[i].peer_gone
    /\ used.frames < MaxPeerFrames
    /\ io' = [io EXCEPT ![i].inbox = @ \o f]
    /\ used' = [used EXCEPT !.frames = @ + 1]
    /\ UNCHANGED <<mem, hist, free_list, peer_up, running, crashed, dt, app, probe, tm, rd, pool>>

\* the peer closes the connection
PeerClose(i) ==
    /\ running /\ ~crashed
    /\ io[i].sock = "connected" /\ ~io[i].peer_gone
    /\ io' = [io EXCEPT ![i].peer_gone = TRUE]
    /\ UNCHANGED <<mem, hist, free_list, peer_up, running, used, crashed, dt, app, probe, tm, rd, pool>>

\* async_read_some completes with the bytes that have arrived, as many as the
\* free part of the read buffer takes
ReadOk(i, script) ==
    /\ running
    /\ io[i].rd_live > 0
    /\ io[i].inbox # <<>>
    /\ LET n == Min(Len(io[i].inbox), free_capacity(mem[i].readbuf))
           bytes == SubSeq(io[i].inbox, 1, n)
           w == [World EXCEPT !.io[i].rd_live = @ - 1,
                              !.io[i].inbox = SubSeq(@, n + 1, Len(@))]
       IN  /\ Len(script) = CountFrames(mem[i].readbuf.data \o bytes, 0)
           /\ Apply(read_completed(w, i, bytes, script))
    /\ UNCHANGED <<peer_up, running, used, dt, app, probe, tm, rd, pool>>

\* async_read_some completes with an error: the socket was closed under it,
\* or the peer is gone and nothing is left to read
ReadErr(i) ==
    /\ running
    /\ \/ /\ io[i].rd_dead > 0
          /\ Apply(read_failed([World EXCEPT !.io[i].rd_dead = @ - 1], i))
       \/ /\ io[i].rd_live > 0 /\ io[i].peer_gone /\ io[i].inbox = <<>>
          /\ Apply(read_failed([World EXCEPT !.io[i].rd_live = @ - 1], i))
    /\ UNCHANGED <<peer_up, running, used, dt, app, probe, tm, rd, pool>>

\* async_write completes: the writes of a socket complete in the order in
\* which they were started
WriteOk(i) ==
    /\ running
    /\ io[i].wr_live # <<>>
    /\ ~io[i].peer_gone
    /\ Apply(write_completed([World EXCEPT !.io[i].wr_live = Tail(@)],
                             i, Head(io[i].wr_live)))
    /\ UNCHANGED <<peer_up, running, used, dt, app, probe, tm, rd, pool>>

\* async_write completes with an error
WriteErr(i) ==
    /\ running
    /\ \/ /\ io[i].wr_dead > 0
          /\ Apply(write_failed([World EXCEPT !.io[i].wr_dead = @ - 1], i))
       \/ /\ io[i].wr_live # <<>> /\ io[i].peer_gone
          /\ Apply(write_failed([World EXCEPT !.io[i].wr_live = Tail(@)], i))
    /\ UNCHANGED <<peer_up, running, used, dt, app, probe, tm, rd, pool>>

\* user code calls the session from outside its handlers: from a timer, or,
\* once the reactor has stopped, from on_deinitialized
User(i, act) ==
    /\ allocated(World, i)
    /\ used.calls < MaxCalls
    /\ act = "drop" => hist[i].tokens > 0
    /\ act = "take" => mem[i].kind = "client"
    /\ Apply(UserCall(World, i, act))
    /\ used' = [used EXCEPT !.calls = @ + 1]
    /\ UNCHANGED <<peer_up, running, dt, app, probe, tm, rd, pool>>

\* app_server::disconnect_inactive_clients: every session of the pool, in the
\* order of the slots
RECURSIVE DisconnectInactiveFrom(_, _)
DisconnectInactiveFrom(w, k) ==
    IF k > Len(SlotOrder) THEN w
    ELSE DisconnectInactiveFrom(
             IF allocated(w, SlotOrder[k]) THEN disconnect_inactive(w, SlotOrder[k])
             ELSE w, k + 1)

DisconnectInactiveClients ==
    /\ running
    /\ used.calls < MaxCalls
    /\ Apply(DisconnectInactiveFrom(World, 1))
    /\ used' = [used EXCEPT !.calls = @ + 1, !.sweeps = @ + 1]
    /\ UNCHANGED <<peer_up, running, dt, app, probe, tm, rd, pool>>

\* time passes: the session has been inactive for longer than the threshold
\* (only disconnect_inactive reads the clock)
Tick(i) ==
    /\ running /\ ~crashed
    /\ allocated(World, i)
    /\ used.calls < MaxCalls
    /\ ~mem[i].idle
    /\ mem' = [mem EXCEPT ![i].idle = TRUE]
    /\ UNCHANGED <<io, hist, free_list, peer_up, running, used, crashed, dt, app, probe, tm, rd, pool>>

\* what an on_disconnected handler does when the reactor has stopped.  (In
\* orderly_disconnect connected_ is false before the handler runs, so that a
\* close() from the handler returns at once; run_server leaves connected_
\* as it is.)
StopActs == {"none", "close"}

\* app_server::run_server after service_.run() returned: every session of the
\* pool that is connected is notified
RECURSIVE StopNotifyFrom(_, _, _)
StopNotifyFrom(w, k, act) ==
    IF k > Len(SlotOrder) THEN w
    ELSE StopNotifyFrom(
             IF allocated(w, SlotOrder[k]) /\ w.mem[SlotOrder[k]].connected
             THEN UserCall(notify_disconnected(w, SlotOrder[k]), SlotOrder[k], act)
             ELSE w, k + 1, act)

Stop(act) ==
    /\ running
    /\ running' = FALSE
    /\ Apply(StopNotifyFrom(World, 1, act))
    /\ UNCHANGED <<peer_up, used, dt, app, probe, tm, rd, pool>>

(***************************************************************************)
(* Framing: the peer passes messages to its send(), the bytes arrive, and  *)
(* async_read_some completes with any number of them.                      *)
(***************************************************************************)
\* the peer, which uses protobuf_packet::send, sends a message
PeerSendFrame(i, tag, payload) ==
    /\ running /\ ~crashed
    /\ io[i].sock = "connected" /\ ~io[i].peer_gone
    /\ used.frames < MaxPeerFrames
    /\ ~hist[i].spin
    /\ io' = [io EXCEPT ![i].inbox = @ \o EncodeFrame(tag, payload)]
    /\ hist' = [hist EXCEPT
                  ![i].peer_sent = Append(@, [tag |-> tag, payload |-> payload]),
                  ![i].peer_bytes = @ \o EncodeFrame(tag, payload)]
    /\ used' = [used EXCEPT !.frames = @ + 1]
    /\ UNCHANGED <<mem, free_list, peer_up, running, crashed, dt, app, probe, tm, rd, pool>>

\* a peer that does not use the library writes a header that declares the
\* length len
PeerSendRaw(i, len, tag) ==
    /\ running /\ ~crashed
    /\ io[i].sock = "connected" /\ ~io[i].peer_gone
    /\ used.frames < MaxPeerFrames
    /\ ~hist[i].spin
    /\ io' = [io EXCEPT ![i].inbox = @ \o U16Bytes(len) \o U16Bytes(tag)]
    /\ hist' = [hist EXCEPT
                  ![i].peer_bytes = @ \o U16Bytes(len) \o U16Bytes(tag)]
    /\ used' = [used EXCEPT !.frames = @ + 1]
    /\ UNCHANGED <<mem, free_list, peer_up, running, crashed, dt, app, probe, tm, rd, pool>>

\* async_read_some completes with n of the bytes that have arrived; the
\* handlers of the messages do nothing
ReadSome(i, n) ==
    /\ running
    /\ io[i].rd_live > 0
    /\ ~hist[i].spin
    /\ n \in 1..Min(Len(io[i].inbox), free_capacity(mem[i].readbuf))
    /\ LET bytes == SubSeq(io[i].inbox, 1, n)
           w == [World EXCEPT !.io[i].rd_live = @ - 1,
                              !.io[i].inbox = SubSeq(@, n + 1, Len(@))]
       IN  Apply(read_completed(w, i, bytes, <<>>))
    /\ UNCHANGED <<peer_up, running, used, dt, app, probe, tm, rd, pool>>

NextFrames ==
    \/ Accept("none")
    \/ \E i \in Slots, tag \in FrameTags, payload \in FramePayloads :
          PeerSendFrame(i, tag, payload)
    \/ \E i \in Slots, n \in 1..(2 * ReadReserve) : ReadSome(i, n)

NextRawFrames ==
    \/ NextFrames
    \/ \E i \in Slots, len \in 0..(HeaderSize - 1), tag \in FrameTags :
          PeerSendRaw(i, len, tag)

(***************************************************************************)
(* The outbound session: the actions above, and those of its connection.   *)
(***************************************************************************)
\* app_server::async_connect: servers_.create, then session->connect(endpoint)
AsyncConnect ==
    /\ running
    /\ free_list # <<>>
    /\ LET i == Head(free_list)
           w == [World EXCEPT !.free = Tail(free_list),
                              !.mem[i] = NewSession("server"),
                              !.io[i] = NewIo,
                              !.hist[i] = NewHist]
       IN  Apply(connect(w, i))
    /\ UNCHANGED <<peer_up, running, used, dt, app, probe, tm, rd, pool>>

\* app_server::connect_to_server: socket.connect (which throws unless the
\* endpoint accepts), servers_.create, then session->start()
ConnectToServer(act) ==
    /\ running
    /\ free_list # <<>>
    /\ peer_up
    /\ used.conns < MaxConnects
    /\ LET i == Head(free_list)
           w == [World EXCEPT !.free = Tail(free_list),
                              !.mem[i] = NewSession("server"),
                              !.io[i] = [NewIo EXCEPT !.sock = "connected"],
                              !.hist[i] = NewHist]
       IN  Apply(start(w, i, act))
    /\ used' = [used EXCEPT !.conns = @ + 1]
    /\ UNCHANGED <<peer_up, running, dt, app, probe, tm, rd, pool>>

\* the remote endpoint starts to listen
PeerUp ==
    /\ running /\ ~crashed
    /\ ~peer_up
    /\ used.ups < MaxPeerUps
    /\ peer_up' = TRUE
    /\ used' = [used EXCEPT !.ups = @ + 1]
    /\ UNCHANGED <<mem, io, hist, free_list, running, crashed, dt, app, probe, tm, rd, pool>>

\* the remote endpoint goes away, and its connections with it
PeerDown ==
    /\ running /\ ~crashed
    /\ peer_up
    /\ peer_up' = FALSE
    /\ io' = [i \in Slots |->
                IF io[i].sock = "connected"
                THEN [io[i] EXCEPT !.peer_gone = TRUE, !.inbox = <<>>]
                ELSE io[i]]
    /\ UNCHANGED <<mem, hist, free_list, running, used, crashed, dt, app, probe, tm, rd, pool>>

\* async_connect completes: the endpoint accepted
ConnectOk(i, act) ==
    /\ running
    /\ io[i].conn_inprog > 0
    /\ peer_up
    /\ used.conns < MaxConnects
    /\ Apply(connect_completed(
                 [World EXCEPT !.io[i].conn_inprog = 0,
                               !.io[i].sock = "connected"], i, act))
    /\ used' = [used EXCEPT !.conns = @ + 1]
    /\ UNCHANGED <<peer_up, running, dt, app, probe, tm, rd, pool>>

\* async_connect completes with an error: nobody listens, or the connect
\* could not be started, or the socket was closed under it
ConnectFail(i) ==
    /\ running
    /\ \/ /\ io[i].conn_inprog > 0 /\ ~peer_up
          /\ Apply(connect_failed(
                       [World EXCEPT !.io[i].conn_inprog = 0,
                                     !.io[i].sock = "open"], i))
       \/ /\ io[i].conn_failed > 0
          /\ Apply(connect_failed(
                       [World EXCEPT !.io[i].conn_failed = @ - 1], i))
    /\ UNCHANGED <<peer_up, running, used, dt, app, probe, tm, rd, pool>>

\* the wait on the timer of a failed connect completes
TimerFire(i) ==
    /\ running
    /\ io[i].timers > 0
    /\ Apply(timer_fired([World EXCEPT !.io[i].timers = @ - 1], i))
    /\ UNCHANGED <<peer_up, running, used, dt, app, probe, tm, rd, pool>>

\* app_server::disconnect_inactive_servers
DisconnectInactiveServers ==
    /\ running
    /\ used.calls < MaxCalls
    /\ Apply(DisconnectInactiveFrom(World, 1))
    /\ used' = [used EXCEPT !.calls = @ + 1, !.sweeps = @ + 1]
    /\ UNCHANGED <<peer_up, running, dt, app, probe, tm, rd, pool>>

NextServer ==
    \/ AsyncConnect
    \/ \E act \in ConnActs : ConnectToServer(act)
    \/ PeerUp
    \/ PeerDown
    \/ \E i \in Slots, act \in ConnActs : ConnectOk(i, act)
    \/ \E i \in Slots : ConnectFail(i)
    \/ \E i \in Slots : TimerFire(i)
    \/ \E i \in Slots : ReadErr(i)
    \/ \E i \in Slots : WriteOk(i)
    \/ \E i \in Slots : WriteErr(i)
    \/ \E i \in Slots, act \in TopActs : User(i, act)
    \/ DisconnectInactiveServers
    \/ \E i \in Slots : Tick(i)
    \/ \E act \in StopActs : Stop(act)

(***************************************************************************)
(* dispatch_table<P, Ps...>: a queue of one-shot handlers for each message *)
(* type of the protocol, and the counter pending_ of the base class.  A    *)
(* handler is user code: when it is invoked it may subscribe a handler     *)
(* again, for the type act names.                                          *)
(***************************************************************************)
\* the message types of the protocol, in the order of the template's pack
DtOrder == <<"T0", "T1">>
DtTypes == Range(DtOrder)

\* what a handler does when it is invoked
HandlerActs == {"none"} \cup DtTypes

\* The table after construction.  The history of the table: nsub numbers the
\* handlers in the order of the subscribe calls and subs lists them by type;
\* calls is the sequence of the invocations of handlers, with a message
\* ("msg") or with the error of cancel ("err"); swept is the set of the
\* handlers cancel() took out of their queue; nframes counts dispatch calls;
\* resub is the set of the handlers subscribed from inside a call with the
\* error of cancel (h) and the handler that subscribed each (by);
\* after_cancel tells that cancel() was the last call made on the table.
\* ambient is the queue_ of an async client: the frames no handler took, by
\* tag (id) and arrival number (n); got lists the frames wait_message
\* returned and arrived the tags of the frames that arrived.
\* lost is the set of the handlers that were queued when on_disconnected of
\* the session was delivered.
\* The owner of the table is an async_client, whose receive() is subscribe(),
\* or a module_pack::AsyncHandler: then connected is its connected_ and conn
\* is the connected_ of the outbound session it handles.
InitDt ==
    [ queue   |-> [t \in DtTypes |-> <<>>],
      pending |-> 0,
      asserts |-> {},
      nsub    |-> 0,
      subs    |-> [t \in DtTypes |-> <<>>],
      calls   |-> <<>>,
      swept   |-> {},
      nframes |-> 0,
      resub   |-> {},
      after_cancel |-> FALSE,
      owner   |-> "async_client",
      ambient |-> <<>>,
      got     |-> <<>>,
      arrived |-> <<>>,
      lost    |-> {},
      connected |-> FALSE,
      conn    |-> FALSE ]

\* the handlers queued in table d
QueuedHandlers(d) ==
    UNION { { d.queue[t][k].id : k \in 1..Len(d.queue[t]) } : t \in DtTypes }

add_pending_handler(d) == [d EXCEPT !.pending = @ + 1]

remove_pending_handler(d) ==
    [d EXCEPT !.pending = @ - 1,
              !.asserts = IF d.pending > 0 THEN @ ELSE @ \cup {"pending_ > 0"}]

\* dispatch_table<P, Ps...>::subscribe
subscribe(d, t, act) ==
    add_pending_handler(
        [d EXCEPT !.queue[t] = Append(@, [id |-> d.nsub + 1, act |-> act]),
                  !.nsub = @ + 1,
                  !.subs[t] = Append(@, d.nsub + 1)])

RECURSIVE cancel(_, _)
RECURSIVE receive(_, _, _)

\* the call of handler h of type t: the handler runs, and calls its owner's
\* receive() if it subscribes again
Invoke(d, h, t, kind) ==
    LET d1 == [d EXCEPT !.calls = Append(@, [h |-> h.id, t |-> t, kind |-> kind])]
        d2 == IF kind = "err"
              THEN [d1 EXCEPT !.resub = @ \cup {[h |-> d1.nsub + 1, by |-> h.id]}]
              ELSE d1
    IN  IF h.act = "none" THEN d1
        ELSE IF d.owner = "AsyncHandler" THEN receive(d2, h.act, "none")
        ELSE subscribe(d2, h.act, "none")

\* dispatch_table<P, Ps...>::pop_handler (the handler it returns is the head
\* of the queue before the call)
pop_handler(d, t) == remove_pending_handler([d EXCEPT !.queue[t] = Tail(@)])

\* dispatch that takes the newest handler of the queue instead of the oldest:
\* the fault C10 guards against
dispatch_newest(d, t) ==
    IF d.queue[t] # <<>>
    THEN Invoke(remove_pending_handler(
                    [d EXCEPT !.queue[t] = SubSeq(@, 1, Len(@) - 1)]),
                d.queue[t][Len(d.queue[t])], t, "msg")
    ELSE d

\* dispatch_table<P, Ps...>::dispatch for a message of type t
dispatch(d, t) ==
    IF d.queue[t] # <<>>
    THEN Invoke(pop_handler(d, t), Head(d.queue[t]), t, "msg")
    ELSE d

\* the loop of cancel() over the queue q it moved out
RECURSIVE CancelLoop(_, _, _)
CancelLoop(d, q, t) ==
    IF q = <<>> THEN d
    ELSE CancelLoop(Invoke(d, Head(q), t, "err"), Tail(q), t)

\* dispatch_table<P, Ps...>::cancel for the types DtOrder[k] and after: the
\* queue is moved out, its handlers are called with the error, queue_.clear(),
\* then the base class's cancel
cancel(d, k) ==
    IF k > Len(DtOrder) THEN d
    ELSE LET t  == DtOrder[k]
             q  == d.queue[t]
             d1 == CancelLoop([d EXCEPT !.queue[t] = <<>>], q, t)
             d2 == [d1 EXCEPT !.queue[t] = <<>>,
                              !.swept = @ \cup { q[j].id : j \in 1..Len(q) }
                                          \cup { d1.queue[t][j].id :
                                                   j \in 1..Len(d1.queue[t]) }]
         IN  cancel(d2, k + 1)

\* module_pack::AsyncHandler::receive
receive(d, t, act) ==
    LET d1 == subscribe(d, t, act)
    IN  IF ~d1.connected THEN cancel(d1, 1) ELSE d1

\* module_pack::AsyncHandler::onConnected
onConnected(d) == [d EXCEPT !.connected = TRUE]

\* an onDisconnected that keeps the subscriptions for the next connection
onDisconnected_keep(d) == [d EXCEPT !.connected = FALSE]

\* module_pack::AsyncHandler::onDisconnected
onDisconnected(d) == cancel([d EXCEPT !.connected = FALSE], 1)

\* module_pack::AsyncHandler::onMessage
onMessage(d, t) == dispatch(d, t)

\* user code subscribes a handler for type t
Subscribe(t, act) ==
    /\ dt.nsub < MaxSubs
    /\ dt' = [subscribe(dt, t, act) EXCEPT !.after_cancel = FALSE]
    /\ UNCHANGED <<mem, io, hist, free_list, peer_up, running, used, crashed, app, probe, tm, rd, pool>>

\* a frame of type t arrives and is dispatched
Dispatch(t) ==
    /\ dt.nframes < MaxDispatch
    /\ dt' = [dispatch(dt, t) EXCEPT !.nframes = @ + 1, !.after_cancel = FALSE]
    /\ UNCHANGED <<mem, io, hist, free_list, peer_up, running, used, crashed, app, probe, tm, rd, pool>>

\* the session of the table disconnects
Cancel ==
    /\ \E t \in DtTypes : dt.queue[t] # <<>>
    /\ dt' = [cancel(dt, 1) EXCEPT !.after_cancel = TRUE]
    /\ UNCHANGED <<mem, io, hist, free_list, peer_up, running, used, crashed, app, probe, tm, rd, pool>>

(***************************************************************************)
(* An AsyncHandler on an outbound session.  Of the session only connected_ *)
(* and the notifications matter here: set_connected sets it and notifies   *)
(* on_connected, orderly_disconnect clears it and notifies on_disconnected *)
(* if it was set, kill clears it and notifies nobody.                      *)
(***************************************************************************)
\* module_pack::handle_server_async(ip, port): a new session that connects
\* asynchronously, and a new handler for it
HandleServerAsyncEndpoint ==
    /\ dt.owner # "AsyncHandler"
    /\ dt' = [InitDt EXCEPT !.owner = "AsyncHandler"]
    /\ UNCHANGED <<mem, io, hist, free_list, peer_up, running, used, crashed, app, probe, tm, rd, pool>>

\* module_pack::handle_server_async(conn), for a session the module holds,
\* which is connected (c) or not: a new handler, then owner->onConnected(conn)
HandleServerAsyncConn(c) ==
    /\ dt.owner # "AsyncHandler"
    /\ dt' = onConnected([InitDt EXCEPT !.owner = "AsyncHandler", !.conn = c])
    /\ UNCHANGED <<mem, io, hist, free_list, peer_up, running, used, crashed, app, probe, tm, rd, pool>>

\* the session connects: set_connected, Client::handle_connected
AhConnected ==
    /\ dt.owner = "AsyncHandler" /\ ~dt.conn
    /\ dt' = [onConnected([dt EXCEPT !.conn = TRUE]) EXCEPT !.after_cancel = FALSE]
    /\ UNCHANGED <<mem, io, hist, free_list, peer_up, running, used, crashed, app, probe, tm, rd, pool>>

\* the session loses its connection or is closed: orderly_disconnect,
\* Client::handle_disconnected
AhDisconnected ==
    /\ dt.owner = "AsyncHandler" /\ dt.conn
    /\ dt' = [onDisconnected([dt EXCEPT !.conn = FALSE]) EXCEPT
                 !.after_cancel = TRUE,
                 !.lost = @ \cup QueuedHandlers(dt)]
    /\ UNCHANGED <<mem, io, hist, free_list, peer_up, running, used, crashed, app, probe, tm, rd, pool>>

\* user code calls kill() on the session
AhKill ==
    /\ dt.owner = "AsyncHandler" /\ dt.conn
    /\ dt' = [dt EXCEPT !.conn = FALSE, !.after_cancel = FALSE]
    /\ UNCHANGED <<mem, io, hist, free_list, peer_up, running, used, crashed, app, probe, tm, rd, pool>>

\* a frame of type t arrives on the session: Client::handle_message
AhMessage(t) ==
    /\ dt.owner = "AsyncHandler" /\ dt.conn
    /\ dt.nframes < MaxDispatch
    /\ dt' = [onMessage(dt, t) EXCEPT !.nframes = @ + 1, !.after_cancel = FALSE]
    /\ UNCHANGED <<mem, io, hist, free_list, peer_up, running, used, crashed, app, probe, tm, rd, pool>>

\* user code calls receive() with a handler for type t
AhReceive(t, act) ==
    /\ dt.owner = "AsyncHandler"
    /\ dt.nsub < MaxSubs
    /\ dt' = [receive(dt, t, act) EXCEPT !.after_cancel = ~dt.connected]
    /\ UNCHANGED <<mem, io, hist, free_list, peer_up, running, used, crashed, app, probe, tm, rd, pool>>

NextAH ==
    \/ HandleServerAsyncEndpoint
    \/ \E c \in BOOLEAN : HandleServerAsyncConn(c)
    \/ AhConnected
    \/ AhDisconnected
    \/ AhKill
    \/ \E t \in DtTypes : AhMessage(t)
    \/ \E t \in DtTypes, act \in HandlerActs : AhReceive(t, act)

NextDT ==
    \/ \E t \in DtTypes, act \in HandlerActs : Subscribe(t, act)
    \/ \E t \in DtTypes : Dispatch(t)
    \/ Cancel

(***************************************************************************)
(* module_pack<Module, cpack<Module, A, B>, Protocol>: the module, its     *)
(* components, and the events run_server and the sessions fan out to       *)
(* them.  Handlers are user code; here they leave the server alone.        *)
(***************************************************************************)
\* the components of the pack, in the order of the template's parameters
ComponentOrder == <<"A", "B">>
MemberOrder == <<"module">> \o ComponentOrder
Members == Range(MemberOrder)

\* The payload types of the parent protocol, in declared order.  The module
\* is declared with subprotocol<Protocol, T0, T1>: it leaves P0 out.
Protocol == <<"P0">> \o DtOrder

\* proto_base<N, Message, Ms...>::identify(tag<T>)
RECURSIVE proto_base(_, _, _)
proto_base(N, Ms, t) ==
    IF Ms = <<>> THEN -1
    ELSE IF Head(Ms) = t THEN N
    ELSE proto_base(N + 1, Tail(Ms), t)

\* subprotocol whose identify numbers its own member types
subprotocol_renumbered(P, Ms, t) == proto_base(0, Ms, t)

\* subprotocol<Protocol, Message, Ms...>::identify(tag<T>)
RECURSIVE subprotocol(_, _, _)
subprotocol(P, Ms, t) ==
    IF Ms = <<>> THEN -1
    ELSE IF Head(Ms) = t THEN proto_base(0, P, t)
    ELSE subprotocol(P, Tail(Ms), t)

\* meta::identify<Protocol, T>() with the module's protocol
identify(t) == proto_base(0, Protocol, t)

\* the type field of an inbound frame: the tags of the protocol and one more
FrameIds == 0..Len(Protocol)

\* the events other than messages a class may declare a handler for
LifecycleEvents ==
    {"initialized", "configuration", "deinitialized", "connected", "disconnected"}

\* what a module or component class declares: handlers for events and for
\* payload types (onMessage overloads)
HandlerSets ==
    { LifecycleEvents \cup DtTypes,
      {},
      {"initialized", "deinitialized", "connected", "T0"} }

\* the connections of the application in the order in which run_server
\* visits them when the reactor has stopped: the client pool, then the pool
\* of outbound sessions
ConnOrder == <<"client", "server">>

\* number of connection events (connected, message, disconnected) of a run
MaxAppEvents == 3

\* The application before its construction.  decl is what each class
\* declares; conns is the set of the connections whose connected_ is set;
\* events is the history of what the server delivered: the event, its
\* connection, the frame's type field, and where it came from ("constructed":
\* a call made before run_server, "running": the event loop, "start" and
\* "stop": run_server itself); calls is the history of the handlers invoked,
\* each with the index n of its event; nconn counts the connection events.
\* ret is what the onMessage overloads of each class return; sent is the
\* history of the frames passed to send() of a connection, each with the
\* index n of the event during which it was sent; thrown tells that an
\* exception is propagating.
InitApp ==
    [ phase  |-> "none",
      decl   |-> [m \in Members |-> {}],
      ret    |-> [m \in Members |-> [t \in DtTypes |-> "void"]],
      conns  |-> {},
      events |-> <<>>,
      calls  |-> <<>>,
      sent   |-> <<>>,
      thrown |-> FALSE,
      nconn  |-> 0 ]

\* What the onMessage overloads of a class that declares the handlers hs
\* return: the class with every handler answers T0 with a T1 and returns
\* void for T1; any other class echoes the message it handles.
Returns(hs) ==
    [t \in DtTypes |->
        IF hs = LifecycleEvents \cup DtTypes
        THEN (IF t = "T0" THEN "T1" ELSE "void")
        ELSE IF t \in hs THEN t ELSE "void"]

\* the payload of a frame: bytes that decode as the type the tag names, or
\* bytes that do not
FrameBufs == {"ok", "bad"}

\* google::protobuf::Message::ParseFromArray
ParseFromArray(buf) == buf = "ok"

\* the server delivers an event
Event(a, ev, conn, id, from) ==
    [a EXCEPT !.events = Append(@, [ev |-> ev, conn |-> conn, id |-> id, from |-> from,
                                    buf |-> "none"])]

\* the event loop delivers a frame: its type field and its payload
MessageEvent(a, conn, id, buf) ==
    [Event(a, "message", conn, id, "running")
        EXCEPT !.events[Len(a.events) + 1].buf = buf]

\* a handler of class who is invoked
Call(a, who, ev, conn, t) ==
    [a EXCEPT !.calls = Append(@, [to |-> who, ev |-> ev, conn |-> conn, type |-> t,
                                   n |-> Len(a.events)])]

\* meta::call_on_connected, call_on_disconnected, call_on_initialized,
\* call_on_deinitialized, call_on_configuration: the handler if the class
\* declares it, nothing otherwise
call_on(a, who, ev, conn) ==
    IF ev \in a.decl[who] THEN Call(a, who, ev, conn, "none") ELSE a

\* module_pack::send_message: conn.send(identify<Protocol, T>(), message);
\* basic_session::send appends the frame if the session is connected
send_message(a, conn, t) ==
    IF conn \in a.conns
    THEN [a EXCEPT !.sent = Append(@, [conn |-> conn, tag |-> identify(t),
                                       payload |-> t, n |-> Len(a.events)])]
    ELSE a

\* reply_message that sends the value to every connection
reply_message_broadcast(a, conn, r) ==
    IF r = "void" THEN a
    ELSE send_message(send_message(a, "client", r), "server", r)

\* meta::reply_message<Module, Reply>::call, with the value r the handler
\* returned
reply_message(a, conn, r) ==
    IF r = "void" THEN a ELSE send_message(a, conn, r)

\* meta::throw_with_buffer: the exception leaves the handler
throw_with_buffer(a) == [a EXCEPT !.thrown = TRUE]

\* meta::call_on_message<T>: the onMessage overload for T if the class
\* declares one, nothing otherwise
call_on_message(a, who, conn, t, buf) ==
    IF t \in a.decl[who]
    THEN IF ~ParseFromArray(buf) THEN throw_with_buffer(a)
         ELSE reply_message(Call(a, who, "message", conn, t), conn, a.ret[who][t])
    ELSE a

\* meta::dispatcher<Module, Protocol, T, Ts...>::dispatch (no code runs when
\* an exception is propagating).  The module's dispatcher is instantiated
\* with the parent protocol, that of a component with the subprotocol.
RECURSIVE dispatcher_dispatch(_, _, _, _, _, _)
dispatcher_dispatch(a, who, conn, id, buf, Ts) ==
    IF a.thrown \/ Ts = <<>> THEN a
    ELSE IF id = (IF who = "module" THEN identify(Head(Ts))
                  ELSE subprotocol(Protocol, DtOrder, Head(Ts)))
         THEN call_on_message(a, who, conn, Head(Ts), buf)
         ELSE dispatcher_dispatch(a, who, conn, id, buf, Tail(Ts))

\* meta::dispatch_component_message<Dispatcher, Aggregate, Connection, C, Cs...>
RECURSIVE dispatch_component_message(_, _, _, _, _)
dispatch_component_message(a, conn, id, buf, Cs) ==
    IF Cs = <<>> THEN a
    ELSE dispatch_component_message(
             dispatcher_dispatch(a, Head(Cs), conn, id, buf, DtOrder),
             conn, id, buf, Tail(Cs))

\* meta::open_component_connection, close_component_connection,
\* initialize_component, deinitialize_component, configure_component: the
\* same recursion over the pack, each with its call_on_ function
RECURSIVE component_fanout(_, _, _, _)
component_fanout(a, ev, conn, Cs) ==
    IF Cs = <<>> THEN a
    ELSE component_fanout(call_on(a, Head(Cs), ev, conn), ev, conn, Tail(Cs))

\* module_pack::dispatch_message
dispatch_message(a, conn, id, buf) ==
    dispatcher_dispatch(a, "module", conn, id, buf, DtOrder)

\* dispatch_client with the components served before the module
dispatch_client_components_first(a, conn, id, buf) ==
    dispatch_message(dispatch_component_message(a, conn, id, buf, ComponentOrder),
                     conn, id, buf)

\* module_pack::dispatch_client and dispatch_server
dispatch_client(a, conn, id, buf) ==
    dispatch_component_message(dispatch_message(a, conn, id, buf),
                               conn, id, buf, ComponentOrder)

\* module_pack::dispatch_connected, dispatch_disconnected,
\* dispatch_initialized, dispatch_deinitialized, dispatch_configuration
dispatch_event(a, ev, conn) ==
    component_fanout(call_on(a, "module", ev, conn), ev, conn, ComponentOrder)

\* app_server::run_server up to service_.run()
run_server_start(a) ==
    LET a1 == dispatch_event(Event(a, "initialized", "none", -1, "start"),
                             "initialized", "none")
    IN  dispatch_event(Event(a1, "configuration", "none", -1, "start"),
                       "configuration", "none")

\* the two foreach loops of run_server after service_.run()
RECURSIVE stop_notify(_, _)
stop_notify(a, Cs) ==
    IF Cs = <<>> THEN a
    ELSE stop_notify(
             IF Head(Cs) \in a.conns
             THEN dispatch_event(Event(a, "disconnected", Head(Cs), -1, "stop"),
                                 "disconnected", Head(Cs))
             ELSE a, Tail(Cs))

\* run_server_stop with onApplicationDeinitialized called before the loops
run_server_stop_deinit_first(a) ==
    stop_notify(dispatch_event(Event(a, "deinitialized", "none", -1, "stop"),
                               "deinitialized", "none"), ConnOrder)

\* app_server::run_server from the return of service_.run()
run_server_stop(a) ==
    dispatch_event(Event(stop_notify(a, ConnOrder), "deinitialized", "none", -1, "stop"),
                   "deinitialized", "none")

\* the module is constructed: its class and those of the components declare
\* their handlers, module_pack's constructor subscribes to the server
AppConstruct(decl) ==
    /\ app.phase = "none"
    /\ app' = [app EXCEPT !.phase = "constructed", !.decl = decl,
                          !.ret = [m \in Members |-> Returns(decl[m])]]
    /\ UNCHANGED <<mem, io, hist, free_list, peer_up, running, used, crashed, dt, probe, tm, rd, pool>>

\* run_server is called
AppRunServer ==
    /\ app.phase = "constructed"
    /\ app' = [run_server_start(app) EXCEPT !.phase = "running"]
    /\ UNCHANGED <<mem, io, hist, free_list, peer_up, running, used, crashed, dt, probe, tm, rd, pool>>

\* an outbound session connects: connect_to_server, which the module calls
\* before run_server (from its constructor) or later, notifies in the call
AppConnectToServer ==
    /\ app.phase \in {"constructed", "running"}
    /\ "server" \notin app.conns
    /\ app.nconn < MaxAppEvents
    /\ app' = [dispatch_event(Event(app, "connected", "server", -1, app.phase),
                              "connected", "server")
                  EXCEPT !.conns = @ \cup {"server"}, !.nconn = @ + 1]
    /\ UNCHANGED <<mem, io, hist, free_list, peer_up, running, used, crashed, dt, probe, tm, rd, pool>>

\* the event loop accepts a client: notify_connected
AppAccept ==
    /\ app.phase = "running"
    /\ "client" \notin app.conns
    /\ app.nconn < MaxAppEvents
    /\ app' = [dispatch_event(Event(app, "connected", "client", -1, "running"),
                              "connected", "client")
                  EXCEPT !.conns = @ \cup {"client"}, !.nconn = @ + 1]
    /\ UNCHANGED <<mem, io, hist, free_list, peer_up, running, used, crashed, dt, probe, tm, rd, pool>>

\* The event loop reads a frame with type field id and payload buf from
\* connection c: notify_message.  Nothing catches an exception of a handler:
\* it leaves service_.run() and run_server, whose remaining statements do
\* not run.
AppFrame(c, id, buf) ==
    /\ app.phase = "running"
    /\ c \in app.conns
    /\ app.nconn < MaxAppEvents
    /\ LET a == dispatch_client(MessageEvent(app, c, id, buf), c, id, buf)
       IN  app' = [a EXCEPT !.nconn = @ + 1,
                            !.phase = IF a.thrown THEN "thrown" ELSE @]
    /\ UNCHANGED <<mem, io, hist, free_list, peer_up, running, used, crashed, dt, probe, tm, rd, pool>>

\* a frame whose payload decodes
AppMessage(c, id) == AppFrame(c, id, "ok")

\* a frame whose payload does not decode
AppBadMessage(c, id) == AppFrame(c, id, "bad")

\* the event loop finds connection c lost or closed: orderly_disconnect
\* clears connected_ and calls notify_disconnected
AppDisconnected(c) ==
    /\ app.phase = "running"
    /\ c \in app.conns
    /\ app.nconn < MaxAppEvents
    /\ app' = [dispatch_event(Event(app, "disconnected", c, -1, "running"),
                              "disconnected", c)
                  EXCEPT !.conns = @ \ {c}, !.nconn = @ + 1]
    /\ UNCHANGED <<mem, io, hist, free_list, peer_up, running, used, crashed, dt, probe, tm, rd, pool>>

\* service_.run() returns and run_server runs to its end
AppStop ==
    /\ app.phase = "running"
    /\ app' = [run_server_stop(app) EXCEPT !.phase = "stopped"]
    /\ UNCHANGED <<mem, io, hist, free_list, peer_up, running, used, crashed, dt, probe, tm, rd, pool>>

NextApp ==
    \/ \E decl \in [Members -> HandlerSets] : AppConstruct(decl)
    \/ AppRunServer
    \/ AppConnectToServer
    \/ AppAccept
    \/ \E c \in Range(ConnOrder), id \in FrameIds : AppMessage(c, id)
    \/ \E c \in Range(ConnOrder) : AppDisconnected(c)
    \/ AppStop

NextAppRaw ==
    \/ NextApp
    \/ \E c \in Range(ConnOrder), id \in FrameIds : AppBadMessage(c, id)

(***************************************************************************)
(* async_client<subprotocol<Protocol, T0, T1>>: the dispatch table of the  *)
(* receive() handlers and the queue of the frames no handler took, which   *)
(* wait_message<T>() drains by type.                                       *)
(***************************************************************************)
\* table_dispatcher that reports a frame of no type of the protocol as not
\* handled
RECURSIVE table_dispatcher_unknown_unhandled(_, _, _)
table_dispatcher_unknown_unhandled(d, id, Ts) ==
    IF Ts = <<>> THEN [d |-> d, r |-> FALSE]
    ELSE IF subprotocol(Protocol, DtOrder, Head(Ts)) = id
         THEN [d |-> dispatch(d, Head(Ts)), r |-> d.queue[Head(Ts)] # <<>>]
         ELSE table_dispatcher_unknown_unhandled(d, id, Tail(Ts))

\* table_dispatcher<Protocol, T, Ts...>::dispatch: d is the table after the
\* call and r the value returned
RECURSIVE table_dispatcher(_, _, _)
table_dispatcher(d, id, Ts) ==
    IF Ts = <<>> THEN [d |-> d, r |-> TRUE]
    ELSE IF subprotocol(Protocol, DtOrder, Head(Ts)) = id
         THEN [d |-> dispatch(d, Head(Ts)), r |-> d.queue[Head(Ts)] # <<>>]
         ELSE table_dispatcher(d, id, Tail(Ts))

\* notify_message that queues the frame before it looks for a handler
notify_message_ambient_first(d, id, n) ==
    table_dispatcher([d EXCEPT !.ambient = Append(@, [id |-> id, n |-> n])],
                     id, DtOrder).d

\* async_client_pack::notify_message for frame number n with tag id
client_notify_message(d, id, n) ==
    LET res == table_dispatcher(d, id, DtOrder)
    IN  IF ~res.r
        THEN [res.d EXCEPT !.ambient = Append(@, [id |-> id, n |-> n])]
        ELSE res.d

\* the loop of wait_message over queue_, from position i: the position of
\* the frame it returns, 0 when it reaches the end
RECURSIVE queue_scan(_, _, _)
queue_scan(q, id, i) ==
    IF i > Len(q) THEN 0
    ELSE IF q[i].id = id THEN i
    ELSE queue_scan(q, id, i + 1)

\* async_client_pack::wait_message<T>, when queue_ holds a frame of type t
wait_message(d, t) ==
    LET i == queue_scan(d.ambient, subprotocol(Protocol, DtOrder, t), 1)
    IN  [d EXCEPT !.got = Append(@, d.ambient[i]),
                  !.ambient = [k \in 1..(Len(@) - 1) |->
                                  IF k < i THEN @[k] ELSE @[k + 1]]]

\* the receive() calls user code makes on one client
MaxReceives == 2

\* user code calls receive() with a handler for type t:
\* dispatcher_.subscribe(std::move(handler))
AcReceive(t, act) ==
    /\ dt.owner = "async_client"
    /\ dt.nsub < MaxReceives
    /\ dt' = [subscribe(dt, t, act) EXCEPT !.after_cancel = FALSE]
    /\ UNCHANGED <<mem, io, hist, free_list, peer_up, running, used, crashed, app, probe, tm, rd, pool>>

\* a frame with tag id arrives at the client's session
AcFrame(id) ==
    /\ dt.owner = "async_client"
    /\ dt.nframes < MaxDispatch
    /\ dt' = [client_notify_message(dt, id, dt.nframes + 1) EXCEPT
                 !.nframes = @ + 1,
                 !.arrived = Append(@, id),
                 !.after_cancel = FALSE]
    /\ UNCHANGED <<mem, io, hist, free_list, peer_up, running, used, crashed, app, probe, tm, rd, pool>>

\* user code calls wait_message<T>(); the call returns when a frame of type
\* t is on queue_ (until then it reads from the session, which is AcFrame)
AcWait(t) ==
    /\ dt.owner = "async_client"
    /\ queue_scan(dt.ambient, subprotocol(Protocol, DtOrder, t), 1) # 0
    /\ dt' = [wait_message(dt, t) EXCEPT !.after_cancel = FALSE]
    /\ UNCHANGED <<mem, io, hist, free_list, peer_up, running, used, crashed, app, probe, tm, rd, pool>>

NextAC ==
    \/ \E t \in DtTypes, act \in HandlerActs : AcReceive(t, act)
    \/ \E id \in FrameIds : AcFrame(id)
    \/ \E t \in DtTypes : AcWait(t)

(***************************************************************************)
(* Timer: a deadline_timer, the flag paused_ and the user's handler.  Each *)
(* resume() arms one asynchronous wait.  A wait is pending until it        *)
(* expires or is cancelled; then its completion handler is queued on the   *)
(* io_service with the result it had at that moment (success for an expiry,*)
(* operation_aborted for a cancel) and runs when the reactor reaches it.   *)
(***************************************************************************)
\* the waits one timer arms
MaxArms == 4

\* what the user's handler does when it is invoked
TimerHandlerActs == {"none", "pause"}

\* The timer before start().  waits[k] is the state of the wait the k-th
\* resume() armed; ready is the io_service's queue of completion handlers,
\* by wait; fired lists the calls of the user's handler: the wait whose
\* completion made the call (w), the newest wait armed at that moment
\* (newest), paused_ when the completion began (paused), what the handler did
\* (act) and whether the completion armed a wait after it (rearmed).
InitTimer ==
    [ started |-> FALSE,
      paused  |-> FALSE,
      act     |-> "none",
      waits   |-> <<>>,
      ready   |-> <<>>,
      fired   |-> <<>> ]

\* deadline_timer::expires_from_now: the pending waits are cancelled, their
\* completion handlers are queued with operation_aborted; a wait that has
\* expired keeps the result it was queued with
expires_from_now(t) ==
    LET P == { k \in 1..Len(t.waits) : t.waits[k] = "pending" }
        RECURSIVE Queue(_, _)
        Queue(q, k) ==
            IF k > Len(t.waits) THEN q
            ELSE Queue(IF k \in P THEN Append(q, k) ELSE q, k + 1)
    IN  [t EXCEPT !.waits = [k \in 1..Len(@) |->
                                IF k \in P THEN "aborted" ELSE @[k]],
                  !.ready = Queue(@, 1)]

\* Timer::do_async_wait: timer_.async_wait(...)
do_async_wait(t) == [t EXCEPT !.waits = Append(@, "pending")]

\* Timer::pause, Timer::stop
pause(t) == [t EXCEPT !.paused = TRUE]

\* Timer::resume
resume(t) == do_async_wait(expires_from_now([t EXCEPT !.paused = FALSE]))

\* Timer::start
timer_start(t, act) == resume([t EXCEPT !.started = TRUE, !.act = act])

\* the completion handler do_async_wait passes to async_wait, for wait k
wait_completed(t, k) ==
    IF t.waits[k] = "expired" /\ ~t.paused
    THEN LET t1 == IF t.act = "pause" THEN pause(t) ELSE t
             t2 == IF ~t1.paused THEN resume(t1) ELSE t1
         IN  [t2 EXCEPT !.fired = Append(@, [w |-> k, newest |-> Len(t.waits),
                                             paused |-> t.paused, act |-> t.act,
                                             rearmed |-> Len(t2.waits) > Len(t.waits)])]
    ELSE t

\* user code creates the timer and starts it with a handler that does act
TimerStart(act) ==
    /\ ~tm.started
    /\ tm' = timer_start(tm, act)
    /\ UNCHANGED <<mem, io, hist, free_list, peer_up, running, used, crashed, dt, app, probe, rd, pool>>

\* user code, in another handler of the reactor, calls pause() or stop()
TimerPause ==
    /\ tm.started /\ ~tm.paused
    /\ tm' = pause(tm)
    /\ UNCHANGED <<mem, io, hist, free_list, peer_up, running, used, crashed, dt, app, probe, rd, pool>>

\* user code, in another handler of the reactor, calls resume()
TimerResume ==
    /\ tm.started
    /\ Len(tm.waits) < MaxArms
    /\ tm' = resume(tm)
    /\ UNCHANGED <<mem, io, hist, free_list, peer_up, running, used, crashed, dt, app, probe, rd, pool>>

\* the period of the pending wait k elapses: its completion handler is
\* queued with success
TimerExpire(k) ==
    /\ k \in 1..Len(tm.waits) /\ tm.waits[k] = "pending"
    /\ Len(tm.waits) < MaxArms
    /\ tm' = [tm EXCEPT !.waits[k] = "expired", !.ready = Append(@, k)]
    /\ UNCHANGED <<mem, io, hist, free_list, peer_up, running, used, crashed, dt, app, probe, rd, pool>>

\* the reactor runs the oldest queued completion handler
TimerComplete ==
    /\ tm.ready # <<>>
    /\ tm' = [wait_completed([tm EXCEPT !.ready = Tail(@)], Head(tm.ready))
                 EXCEPT !.waits[Head(tm.ready)] = "done"]
    /\ UNCHANGED <<mem, io, hist, free_list, peer_up, running, used, crashed, dt, app, probe, rd, pool>>

NextTimer ==
    \/ \E act \in TimerHandlerActs : TimerStart(act)
    \/ TimerPause
    \/ TimerResume
    \/ \E k \in 1..MaxArms : TimerExpire(k)
    \/ TimerComplete

(***************************************************************************)
(* async_stdin: the thread that calls async_read and runs the io_service   *)
(* ("reactor") and the worker thread that reads the stream.  The reactor   *)
(* pushes requests on queue_ under the mutex; the worker pops one, reads   *)
(* the stream until raw_input holds a newline and hands the line to the    *)
(* io_service, on which the handler runs.  timer_ is the keepalive timer.  *)
(***************************************************************************)
\* the characters of a stream: a letter, a blank and the newline
Chars == {"a", "sp", "nl"}

\* the longest stream
StreamLen == 3

\* the most characters one readsome call returns
ReadChunk == 2

\* the async_read calls made on one reader
MaxRequests == 2

\* the keepalive waits armed before the last one that expires
MaxKeepAlive == 3

Streams == UNION { [1..n -> Chars] : n \in 0..StreamLen }

\* The reader after construction, which arms the keepalive timer.  text is
\* the whole content of the stream and stream what has not been read of it;
\* nread counts the async_read calls and nreq those that queued a request;
\* worker is the position of the worker thread ("none" before it is
\* started, "idle" in the outer loop, "reading" in the inner loop with
\* request cur, "joined" after stop()); posted is the io_service's queue of
\* the lambdas the worker dispatched; calls lists the handler calls: the
\* request, the command's raw() and the thread; waits and ready are those of
\* timer_; unsync lists the async_read calls that evaluated input.eof()
\* while the worker was in its read loop on the same stream.
InitStdin ==
    [ opened  |-> FALSE,
      text    |-> <<>>,
      stream  |-> <<>>,
      nread   |-> 0,
      nreq    |-> 0,
      queue_  |-> <<>>,
      dispatch_count_ |-> 0,
      terminate_ |-> FALSE,
      worker  |-> "none",
      cur     |-> 0,
      raw_input |-> <<>>,
      posted  |-> <<>>,
      calls   |-> <<>>,
      waits   |-> <<"pending">>,
      ready   |-> <<>>,
      unsync  |-> {} ]

\* async_stdin::keep_alive
keep_alive(r) == do_async_wait(expires_from_now(r))

\* async_stdin::push_queue for request n
push_queue(r, n) ==
    [r EXCEPT !.dispatch_count_ = @ + 1, !.queue_ = Append(@, n)]

\* async_stdin::async_read on a stream whose eof() is false: request n
async_read(r) ==
    LET r1 == IF r.worker = "none" THEN [r EXCEPT !.worker = "idle"] ELSE r
    IN  [push_queue(keep_alive(r1), r.nreq + 1) EXCEPT !.nreq = @ + 1]

\* the position of the first newline of s from position i, 0 if there is none
RECURSIVE find_newline(_, _)
find_newline(s, i) ==
    IF i > Len(s) THEN 0
    ELSE IF s[i] = "nl" THEN i
    ELSE find_newline(s, i + 1)

\* boost::algorithm::trim
RECURSIVE trim_left(_)
trim_left(s) ==
    IF s # <<>> /\ Head(s) = "sp" THEN trim_left(Tail(s)) ELSE s

RECURSIVE trim_right(_)
trim_right(s) ==
    IF s # <<>> /\ s[Len(s)] = "sp" THEN trim_right(SubSeq(s, 1, Len(s) - 1)) ELSE s

trim(s) == trim_right(trim_left(s))

\* io_service::dispatch from thread thr: the function runs in the call if
\* thr is the thread that runs the io_service, otherwise it is queued
service_dispatch(r, thr, f) ==
    IF thr = "reactor"
    THEN [r EXCEPT !.calls = Append(@, [req |-> f.req, raw |-> f.raw, thr |-> thr]),
                   !.dispatch_count_ = @ - 1]
    ELSE [r EXCEPT !.posted = Append(@, f)]

\* an inner loop of read_istream that forgets what follows the newline
read_istream_discard(r, n) ==
    LET raw     == r.raw_input \o SubSeq(r.stream, 1, n)
        r1      == [r EXCEPT !.stream = SubSeq(@, n + 1, Len(@))]
        newline == find_newline(raw, 1)
    IN  IF newline # 0
        THEN service_dispatch([r1 EXCEPT !.raw_input = <<>>, !.worker = "idle"],
                              "worker",
                              [req |-> r.cur, raw |-> trim(SubSeq(raw, 1, newline - 1))])
        ELSE [r1 EXCEPT !.raw_input = raw]

\* one turn of the inner loop of async_stdin::read_istream, in which readsome
\* returns n characters
read_istream(r, n) ==
    LET raw     == r.raw_input \o SubSeq(r.stream, 1, n)
        r1      == [r EXCEPT !.stream = SubSeq(@, n + 1, Len(@))]
        newline == find_newline(raw, 1)
    IN  IF newline # 0
        THEN service_dispatch([r1 EXCEPT !.raw_input = SubSeq(raw, newline + 1, Len(raw)),
                                         !.worker = "idle"],
                              "worker",
                              [req |-> r.cur, raw |-> trim(SubSeq(raw, 1, newline - 1))])
        ELSE [r1 EXCEPT !.raw_input = raw]

\* a keepalive that is armed by async_read only
keepalive_completed_once(r, k) == r

\* the completion handler keep_alive passes to async_wait, for wait k
keepalive_completed(r, k) ==
    IF r.waits[k] = "expired" /\ ~r.terminate_ /\ r.dispatch_count_ # 0
    THEN keep_alive(r)
    ELSE r

\* user code creates the stream the reader is to read
StdinStream(text) ==
    /\ ~rd.opened
    /\ rd' = [rd EXCEPT !.opened = TRUE, !.text = text, !.stream = text]
    /\ UNCHANGED <<mem, io, hist, free_list, peer_up, running, used, crashed, dt, app, probe, tm, pool>>

\* user code calls async_read(stream, handler); eof is what input.eof()
\* returns
AsyncRead(eof) ==
    /\ rd.opened /\ ~rd.terminate_
    /\ rd.nread < MaxRequests
    /\ LET r1 == [rd EXCEPT !.nread = @ + 1,
                            !.unsync = IF rd.worker = "reading"
                                       THEN @ \cup {rd.nread + 1} ELSE @]
       IN  rd' = IF eof THEN r1 ELSE async_read(r1)
    /\ UNCHANGED <<mem, io, hist, free_list, peer_up, running, used, crashed, dt, app, probe, tm, pool>>

\* the worker thread, in the outer loop of read_istream, pops a request
WorkerPop ==
    /\ rd.worker = "idle" /\ ~rd.terminate_
    /\ rd.queue_ # <<>>
    /\ rd' = [rd EXCEPT !.cur = Head(rd.queue_), !.queue_ = Tail(@),
                        !.worker = "reading"]
    /\ UNCHANGED <<mem, io, hist, free_list, peer_up, running, used, crashed, dt, app, probe, tm, pool>>

\* the worker thread makes a turn of the inner loop
WorkerRead(n) ==
    /\ rd.worker = "reading" /\ ~rd.terminate_
    /\ n <= Len(rd.stream)
    /\ rd' = read_istream(rd, n)
    /\ UNCHANGED <<mem, io, hist, free_list, peer_up, running, used, crashed, dt, app, probe, tm, pool>>

\* the reactor runs the oldest lambda the worker dispatched: the handler,
\* which calls async_read again or not, then --dispatch_count_
StdinHandler(again) ==
    /\ rd.posted # <<>>
    /\ again => rd.nread < MaxRequests /\ ~rd.terminate_
    /\ LET f  == Head(rd.posted)
           r1 == [rd EXCEPT !.posted = Tail(@),
                            !.calls = Append(@, [req |-> f.req, raw |-> f.raw,
                                                 thr |-> "reactor"])]
           r2 == IF again THEN async_read([r1 EXCEPT !.nread = @ + 1]) ELSE r1
       IN  rd' = [r2 EXCEPT !.dispatch_count_ = @ - 1]
    /\ UNCHANGED <<mem, io, hist, free_list, peer_up, running, used, crashed, dt, app, probe, tm, pool>>

\* the 100 ms of the pending keepalive wait k elapse
KeepAliveExpire(k) ==
    /\ k \in 1..Len(rd.waits) /\ rd.waits[k] = "pending"
    /\ Len(rd.waits) < MaxKeepAlive
    /\ rd' = [rd EXCEPT !.waits[k] = "expired", !.ready = Append(@, k)]
    /\ UNCHANGED <<mem, io, hist, free_list, peer_up, running, used, crashed, dt, app, probe, tm, pool>>

\* the reactor runs the oldest queued completion handler of timer_
KeepAliveComplete ==
    /\ rd.ready # <<>>
    /\ rd' = [keepalive_completed([rd EXCEPT !.ready = Tail(@)], Head(rd.ready))
                 EXCEPT !.waits[Head(rd.ready)] = "done"]
    /\ UNCHANGED <<mem, io, hist, free_list, peer_up, running, used, crashed, dt, app, probe, tm, pool>>

\* async_stdin::stop, from the destructor: terminate_ is set and the worker
\* joined
StdinStop ==
    /\ rd.opened /\ ~rd.terminate_
    /\ rd' = [rd EXCEPT !.terminate_ = TRUE,
                        !.worker = IF @ = "none" THEN @ ELSE "joined"]
    /\ UNCHANGED <<mem, io, hist, free_list, peer_up, running, used, crashed, dt, app, probe, tm, pool>>

NextStdin ==
    \/ \E text \in Streams : StdinStream(text)
    \/ \E eof \in BOOLEAN : AsyncRead(eof)
    \/ WorkerPop
    \/ \E n \in 0..ReadChunk : WorkerRead(n)
    \/ \E again \in BOOLEAN : StdinHandler(again)
    \/ \E k \in 1..MaxKeepAlive : KeepAliveExpire(k)
    \/ KeepAliveComplete
    \/ StdinStop

(***************************************************************************)
(* meta::identify over protocols and subprotocols: a protocol is declared  *)
(* with a list of payload types, a subprotocol with a protocol and a list  *)
(* of its types, and identify is evaluated for each of their types.        *)
(***************************************************************************)
\* the payload types there are
TypeUniverse == Range(Protocol)

\* the longest declared type list
MaxTypes == 3

\* the type lists a protocol or subprotocol is declared with
TypeLists == UNION { [1..n -> TypeUniverse] : n \in 1..MaxTypes }

InitProbe == [P |-> <<>>, Ms |-> <<>>, tag |-> <<>>, subtag |-> <<>>]

\* protocol<P...> and subprotocol<protocol<P...>, Ms...> are declared, once
\* (every type of Ms is one of P, or identify does not compile), and identify
\* is evaluated for each type of both
Identify(P, Ms) ==
    /\ probe = InitProbe
    /\ Range(Ms) \subseteq Range(P)
    /\ probe' = [P |-> P, Ms |-> Ms,
                 tag |-> [k \in 1..Len(P) |-> proto_base(0, P, P[k])],
                 subtag |-> [k \in 1..Len(Ms) |-> subprotocol(P, Ms, Ms[k])]]
    /\ UNCHANGED <<mem, io, hist, free_list, peer_up, running, used, crashed, dt, app, tm, rd, pool>>

NextProto == \E P \in TypeLists, Ms \in TypeLists : Identify(P, Ms)

(***************************************************************************)
(* object_pool: a vector of slabs (fixed_object_pool), each with N slots   *)
(* and a free list.  An object's address is the address of its slab and    *)
(* its slot in the slab: <<at, slot>>.  The allocator places a new slab at  *)
(* any address where no slab lives, that of a released slab included.      *)
(***************************************************************************)
\* N: the slots of one slab
SlabSize == 2

\* the addresses at which the allocator places slabs
MaxSlabs == 3

\* the create and destroy calls made on the pool
MaxPoolOps == 5

SlabAddrs == 1..MaxSlabs

\* fixed_object_pool(): the free list is the slots in order
NewSlab(at) == [at |-> at, free |-> [k \in 1..SlabSize |-> k - 1]]

\* The pool after construction: no slab.  live is the set of the addresses
\* of the objects created and not destroyed, dead that of the addresses of
\* destroyed objects at which no object lives now; dup tells that create
\* returned the address of a live object; asked is the last allocated(p)
\* call: its argument, whether p was live, and its outcome ("true", "false",
\* or "terminate" for the throw; it executes with no exception active).
InitPool ==
    [ slabs |-> <<>>,
      live  |-> {},
      dead  |-> {},
      dup   |-> FALSE,
      nops  |-> 0,
      asked |-> <<>> ]

\* fixed_object_pool::belongs
belongs(slab, p) == p[1] = slab.at

\* fixed_object_pool::allocated: p is not on the free list
fixed_allocated(slab, p) == p[2] \notin Range(slab.free)

\* fixed_object_pool::empty: free_size_ == N
slab_empty(slab) == Len(slab.free) = SlabSize

\* the loop of object_pool::create: the last slab, from k down, that has a
\* free slot; 0 if none has
RECURSIVE create_scan(_, _)
create_scan(slabs, k) ==
    IF k = 0 THEN 0
    ELSE IF slabs[k].free # <<>> THEN k
    ELSE create_scan(slabs, k - 1)

\* object_pool::create and fixed_object_pool::create: the head of the free
\* list of that slab, or of a new slab, which the allocator places at `at`
object_pool_create(pl, at) ==
    LET k     == create_scan(pl.slabs, Len(pl.slabs))
        slabs == IF k # 0 THEN pl.slabs ELSE Append(pl.slabs, NewSlab(at))
        j     == IF k # 0 THEN k ELSE Len(slabs)
        p     == <<slabs[j].at, Head(slabs[j].free)>>
    IN  [pl EXCEPT !.slabs = [slabs EXCEPT ![j].free = Tail(@)],
                   !.dup   = @ \/ p \in pl.live,
                   !.live  = @ \cup {p},
                   !.dead  = @ \ {p}]

\* the loops of object_pool::destroy and allocated: the first slab, from k
\* on, to which p belongs; 0 if there is none
RECURSIVE belongs_scan(_, _, _)
belongs_scan(slabs, p, k) ==
    IF k > Len(slabs) THEN 0
    ELSE IF belongs(slabs[k], p) THEN k
    ELSE belongs_scan(slabs, p, k + 1)

\* fixed_object_pool::destroy on the slab p belongs to: the slot goes to the
\* head of the free list
fixed_destroy(pl, p) ==
    LET k == belongs_scan(pl.slabs, p, 1)
    IN  IF k = 0 THEN pl
        ELSE [pl EXCEPT !.slabs[k].free = <<p[2]>> \o @,
                        !.live = @ \ {p},
                        !.dead = @ \cup {p}]

\* object_pool::destroy: slab.destroy(t), and a slab that became empty is
\* erased
object_pool_destroy(pl, p) ==
    LET k  == belongs_scan(pl.slabs, p, 1)
        p1 == fixed_destroy(pl, p)
    IN  IF k # 0 /\ slab_empty(p1.slabs[k])
        THEN [p1 EXCEPT !.slabs = [j \in 1..(Len(@) - 1) |->
                                      IF j < k THEN @[j] ELSE @[j + 1]]]
        ELSE p1

\* object_pool::allocated
object_pool_allocated(pl, p) ==
    LET k == belongs_scan(pl.slabs, p, 1)
    IN  IF k = 0 THEN "terminate"
        ELSE IF fixed_allocated(pl.slabs[k], p) THEN "true" ELSE "false"

\* clients_.create(...)
PoolCreate(at) ==
    /\ pool.nops < MaxPoolOps
    /\ \A k \in 1..Len(pool.slabs) : pool.slabs[k].at # at
    /\ pool' = [object_pool_create(pool, at) EXCEPT !.nops = @ + 1, !.asked = <<>>]
    /\ UNCHANGED <<mem, io, hist, free_list, peer_up, running, used, crashed, dt, app, probe, tm, rd>>

\* clients_.destroy(p), for an object p that lives
PoolDestroy(p) ==
    /\ pool.nops < MaxPoolOps
    /\ p \in pool.live
    /\ pool' = [object_pool_destroy(pool, p) EXCEPT !.nops = @ + 1, !.asked = <<>>]
    /\ UNCHANGED <<mem, io, hist, free_list, peer_up, running, used, crashed, dt, app, probe, tm, rd>>

\* clients_.allocated(p), for an object p that lives or was destroyed
PoolAllocated(p) ==
    /\ p \in pool.live \cup pool.dead
    /\ pool' = [pool EXCEPT !.asked = << [p    |-> p,
                                          live |-> p \in pool.live,
                                          res  |-> object_pool_allocated(pool, p)] >>]
    /\ UNCHANGED <<mem, io, hist, free_list, peer_up, running, used, crashed, dt, app, probe, tm, rd>>

NextPool ==
    \/ \E at \in SlabAddrs : PoolCreate(at)
    \/ \E p \in SlabAddrs \X (0..(SlabSize - 1)) : PoolDestroy(p)
    \/ \E p \in SlabAddrs \X (0..(SlabSize - 1)) : PoolAllocated(p)

\* The server after construction: an empty client pool (the free list of a
\* new slab is its slots in order), the reactor running.
Init ==
    /\ mem = [i \in Slots |-> NewSession("client")]
    /\ io = [i \in Slots |-> NewIo]
    /\ hist = [i \in Slots |-> NewHist]
    /\ free_list = SlotOrder
    /\ peer_up = FALSE
    /\ running = TRUE
    /\ crashed = FALSE
    /\ used = [calls |-> 0, frames |-> 0, ups |-> 0, conns |-> 0, sweeps |-> 0]
    /\ dt = InitDt
    /\ app = InitApp
    /\ probe = InitProbe
    /\ tm = InitTimer
    /\ rd = InitStdin
    /\ pool = InitPool

Next ==
    \/ \E act \in ConnActs : Accept(act)
    \/ \E i \in Slots, f \in PeerFrames : PeerSend(i, f)
    \/ \E i \in Slots : PeerClose(i)
    \/ \E i \in Slots :
         \E script \in UNION { [1..k -> MsgActs] : k \in 0..MaxPeerFrames } :
            ReadOk(i, script)
    \/ \E i \in Slots : ReadErr(i)
    \/ \E i \in Slots : WriteOk(i)
    \/ \E i \in Slots : WriteErr(i)
    \/ \E i \in Slots, act \in TopActs : User(i, act)
    \/ DisconnectInactiveClients
    \/ \E i \in Slots : Tick(i)
    \/ \E act \in StopActs : Stop(act)

Spec == Init /\ [][Next]_vars

\* The same server, which connects to a remote endpoint and accepts no
\* client.  The endpoint accepts, refuses and drops connections and takes the
\* frames written to it; it sends none (what a session does with the frames
\* it reads is the subject of Spec).
SpecServer == Init /\ [][NextServer]_vars

\* the dispatch table of one connection, used by its owner
SpecDT == Init /\ [][NextDT]_vars

\* one inbound session whose peer sends well-formed frames
SpecFrames == Init /\ [][NextFrames]_vars

\* one inbound session whose peer also sends headers that declare less than
\* the size of a header
SpecRawFrames == Init /\ [][NextRawFrames]_vars

\* an AsyncHandler made by a module for one of its outbound sessions
SpecAH == Init /\ [][NextAH]_vars

\* one run of an application: a module with two components
SpecApp == Init /\ [][NextApp]_vars

\* the same application with peers that also send payloads that do not
\* decode
SpecAppRaw == Init /\ [][NextAppRaw]_vars

\* an async client: receive(), frames from the peer, wait_message()
SpecAC == Init /\ [][NextAC]_vars

\* a receiver of frames: a process is a module_pack application or an async
\* client
NextReceiver ==
    \/ dt = InitDt /\ NextAppRaw
    \/ app = InitApp /\ NextAC

SpecReceiver == Init /\ [][NextReceiver]_vars

\* a Timer, its user and the reactor
SpecTimer == Init /\ [][NextTimer]_vars

\* an async_stdin, its user, its worker thread and the reactor
SpecStdin == Init /\ [][NextStdin]_vars

\* identify applied to declared protocols and subprotocols
SpecProto == Init /\ [][NextProto]_vars

\* an object_pool, with the calls user code makes on it
SpecPool == Init /\ [][NextPool]_vars

(***************************************************************************)
(* Properties.  They are stated over the histories of the sessions and of  *)
(* the dispatch table.                                                     *)
(***************************************************************************)
Count(log, e) == Cardinality({ k \in 1..Len(log) : log[k] = e })

IsLifecycle(e) == e \in {"connected", "disconnected"}

\* the last on_connected or on_disconnected before position k of the log
LastLifecycle(log, k) ==
    LET S == { j \in 1..(k - 1) : IsLifecycle(log[j]) }
    IN  IF S = {} THEN "none" ELSE log[CHOOSE j \in S : \A j2 \in S : j2 <= j]

\* the number of on_disconnected since the last on_connected
DisconnectedSinceConnected(log) ==
    Cardinality({ k \in 1..Len(log) :
                    /\ log[k] = "disconnected"
                    /\ \A j \in (k + 1)..Len(log) : log[j] # "connected" })

Killed(log) == \E k \in 1..Len(log) : log[k] = "kill"

\* C1: on_disconnected fires at most once per connected period of a session,
\* whatever the sequence of close(), disconnect_inactive(), failed reads and
\* writes and the stop of the reactor.
C1_DisconnectedOncePerPeriod ==
    \A i \in Slots : DisconnectedSinceConnected(hist[i].log) <= 1

\* C2: a client session is removed from the pool only when it is not
\* connected, has no outstanding operation and no reference.
C2_RemovedOnlyWhenQuiet ==
    \A i \in Slots :
        hist[i].removed > 0 =>
            hist[i].rm_state =
                [connected |-> FALSE, outstanding_ops |-> 0, refcount |-> 0]

\* C3: while a token of take_ownership() is alive the session is not removed
\* and its slot is not on the free list; the session is removed once at most.
C3_TokenKeepsSession ==
    \A i \in Slots :
        /\ hist[i].tokens > 0 => (allocated(World, i) /\ hist[i].removed = 0)
        /\ hist[i].removed <= 1

\* C4: every on_message of a session comes after its on_connected and before
\* the on_disconnected of that connection.
C4_MessagesWhileConnected ==
    \A i \in Slots :
        \A k \in 1..Len(hist[i].log) :
            hist[i].log[k] = "message" =>
                LastLifecycle(hist[i].log, k) = "connected"

\* C5: after kill() the owner of the session gets no notification.
C5_SilentAfterKill ==
    \A i \in Slots :
        \A k \in 1..Len(hist[i].log) :
            hist[i].log[k] = "kill" =>
                \A j \in (k + 1)..Len(hist[i].log) : hist[i].log[j] = "kill"

Lifecycle(log) == SelectSeq(log, IsLifecycle)

Alternates(s) ==
    \A k \in 1..Len(s) :
        s[k] = IF k % 2 = 1 THEN "connected" ELSE "disconnected"

\* an outbound session made by async_connect, with the reactor running and
\* kill() not called
AsyncLive(i) ==
    /\ allocated(World, i)
    /\ mem[i].kind = "server" /\ mem[i].endpoint_set
    /\ running /\ ~Killed(hist[i].log)

C7_Reconnects ==
    \A i \in Slots :
        \A r \in hist[i].reconnects : r.to = "endpoint" /\ ~r.killed

\* C8: the frames go to the socket in the order of the send() calls, each
\* of them once at most.
C8_WrittenInOrderOnce ==
    \A i \in Slots :
        \A j, k \in 1..Len(hist[i].wire) :
            j < k => hist[i].wire[j] < hist[i].wire[k]

\* C9: a session has one asynchronous write outstanding at most, and the
\* buffer of the write in flight is not the one send() appends to.
C9_OneWriteInFlight ==
    \A i \in Slots :
        /\ Len(io[i].wr_live) + io[i].wr_dead <= 1
        /\ \A k \in 1..Len(io[i].wr_live) :
              io[i].wr_live[k] # mem[i].writebuf.cur

\* the handlers of type t that got a message, in the order of the calls
DeliveredTo(t) ==
    LET Is(c) == c.kind = "msg" /\ c.t = t
        cs == SelectSeq(dt.calls, Is)
    IN  [k \in 1..Len(cs) |-> cs[k].h]

\* the handlers subscribed for type t that cancel() did not take away, in the
\* order of the subscribe calls
Unswept(t) ==
    LET Stays(h) == h \notin dt.swept
    IN  SelectSeq(dt.subs[t], Stays)

\* C10: the k-th frame of a type that is delivered goes to the k-th handler
\* subscribed for the type (of those cancel() did not take away), a handler
\* is invoked once at most, and a handler that got its frame is no longer in
\* the queue.
C10_Fifo ==
    /\ \A t \in DtTypes :
          /\ Len(DeliveredTo(t)) <= Len(Unswept(t))
          /\ \A k \in 1..Len(DeliveredTo(t)) : DeliveredTo(t)[k] = Unswept(t)[k]
          /\ \A k \in 1..Len(DeliveredTo(t)) :
                \A j \in 1..Len(dt.queue[t]) :
                    dt.queue[t][j].id # DeliveredTo(t)[k]
    /\ \A j, k \in 1..Len(dt.calls) :
          dt.calls[j].h = dt.calls[k].h => j = k

\* the case of C10: two frames of a type were delivered while a third handler
\* of the type waits
C10_Witness ==
    \E t \in DtTypes :
        /\ Len(DeliveredTo(t)) >= 2
        /\ dt.queue[t] # <<>>

\* dispatch_table<>::done
done(d) == d.pending = 0

\* the handlers subscribed from inside a cancellation callback
Resubscribed == { r.h : r \in dt.resub }

CallsOf(h) == { k \in 1..Len(dt.calls) : dt.calls[k].h = h }

\* C11: after cancel() every handler that was subscribed (by user code or
\* from a delivery) and had not been delivered has been invoked exactly once,
\* with the error; every queue is empty and done() is true.
C11_CancelledAll ==
    dt.after_cancel =>
        /\ \A h \in (1..dt.nsub) \ Resubscribed :
              /\ Cardinality(CallsOf(h)) = 1
              /\ h \in dt.swept => \A k \in CallsOf(h) : dt.calls[k].kind = "err"
        /\ \A t \in DtTypes : dt.queue[t] = <<>>
        /\ done(dt)

\* C12: a handler subscribed from inside a cancellation callback is never
\* invoked, neither by that cancel() nor by a later one, and the handler that
\* subscribed it was invoked once.
C12_NoRecancel ==
    \A r \in dt.resub :
        /\ CallsOf(r.h) = {}
        /\ Cardinality(CallsOf(r.by)) = 1

\* C13: an AsyncHandler has no pending subscription while its outbound
\* session is not connected.
C13_NoPendingWhileDown ==
    (dt.owner = "AsyncHandler" /\ ~dt.conn) =>
        \A t \in DtTypes : dt.queue[t] = <<>>

\* The same with the handler's connected_ for the session's: while it is
\* false no subscription is pending and every handler was invoked (this one
\* holds).
AsyncHandlerQuietWhenDown ==
    (dt.owner = "AsyncHandler" /\ ~dt.connected) =>
        /\ \A t \in DtTypes : dt.queue[t] = <<>>
        /\ \A h \in 1..dt.nsub : Cardinality(CallsOf(h)) = 1

\* the bytes of the peer that async_read_some has handed to the session
Received(i) ==
    SubSeq(hist[i].peer_bytes, 1, Len(hist[i].peer_bytes) - Len(io[i].inbox))

\* the message the session's owner gets for what the peer passed to send()
AsMessage(f) == [type |-> f.tag, size |-> Len(f.payload), data |-> f.payload]

\* C14: the frame send(tag, payload) makes is HeaderSize + Len(payload) bytes
\* long and says so in its header, up to the largest payload; read back, it
\* gives one message with the tag and the payload, and once all that was
\* sent is read every message was delivered and the read buffer is empty.
C14_RoundTrip ==
    /\ \A tag \in FrameTags, payload \in FramePayloads :
          /\ Len(EncodeFrame(tag, payload)) = HeaderSize + Len(payload)
          /\ U16At(EncodeFrame(tag, payload), 0, 0) = HeaderSize + Len(payload)
          /\ U16At(EncodeFrame(tag, payload), 0, 1) = tag
    /\ \A n \in {0, MaxFrame - HeaderSize} :
          U16At(U16Bytes(HeaderSize + n), 0, 0) = HeaderSize + n
    /\ \A i \in Slots :
          allocated(World, i) =>
              /\ Len(hist[i].msgs) <= Len(hist[i].peer_sent)
              /\ \A k \in 1..Len(hist[i].msgs) :
                    hist[i].msgs[k] = AsMessage(hist[i].peer_sent[k])
              /\ io[i].inbox = <<>> =>
                    /\ Len(hist[i].msgs) = Len(hist[i].peer_sent)
                    /\ mem[i].readbuf.head = mem[i].readbuf.tail
                    /\ mem[i].readbuf.data = <<>>

\* the case of C14: a message with the largest tag and a payload went
\* through, and nothing is left to read
C14_Witness ==
    \E i \in Slots :
        /\ allocated(World, i)
        /\ io[i].inbox = <<>>
        /\ \E k \in 1..Len(hist[i].msgs) :
              hist[i].msgs[k].type = 65535 /\ hist[i].msgs[k].size > 0

\* the messages one pass of the parse loop delivers from data
RECURSIVE Messages(_, _)
Messages(data, pos) ==
    IF /\ Len(data) - pos >= HeaderSize
       /\ U16At(data, pos, 0) >= HeaderSize
       /\ U16At(data, pos, 0) <= Len(data) - pos
    THEN <<[type |-> U16At(data, pos, 1),
            size |-> U16At(data, pos, 0) - HeaderSize,
            data |-> SubSeq(data, pos + HeaderSize + 1, pos + U16At(data, pos, 0))]>>
         \o Messages(data, pos + U16At(data, pos, 0))
    ELSE <<>>

\* the number of bytes of the frames of msgs
RECURSIVE FrameBytes(_)
FrameBytes(msgs) ==
    IF msgs = <<>> THEN 0
    ELSE HeaderSize + Head(msgs).size + FrameBytes(Tail(msgs))

\* C15: however the bytes of well-formed frames are split over the reads,
\* the messages delivered are those of one read of all the bytes received so
\* far; the bytes after them stay in the read buffer, they hold no whole
\* frame, and the session sees no error.
C15_SplitIndependent ==
    \A i \in Slots :
        allocated(World, i) =>
            /\ hist[i].msgs = Messages(Received(i), 0)
            /\ mem[i].readbuf.data =
                  SubSeq(Received(i), FrameBytes(hist[i].msgs) + 1, Len(Received(i)))
            /\ Messages(mem[i].readbuf.data, 0) = <<>>
            /\ mem[i].connected
            /\ hist[i].asserts = {}
            /\ Count(hist[i].log, "disconnected") = 0

\* the case of C15: after a message was delivered the first bytes of the
\* next frame wait in the read buffer
C15_Witness ==
    \E i \in Slots :
        /\ allocated(World, i)
        /\ Len(hist[i].msgs) >= 1
        /\ mem[i].readbuf.data # <<>>
        /\ Len(hist[i].msgs) < Len(hist[i].peer_sent)

\* C16: every message delivered has a size of 0 or more, and a session that
\* read a header declaring less than the size of a header is closed: it is
\* not connected any more.
C16_BadLengthKills ==
    \A i \in Slots :
        allocated(World, i) =>
            /\ \A k \in 1..Len(hist[i].msgs) : hist[i].msgs[k].size >= 0
            /\ \A k \in 0..(Len(Received(i)) - HeaderSize) :
                  (/\ k = FrameBytes(Messages(Received(i), 0))
                   /\ U16At(Received(i), k, 0) < HeaderSize)
                      => ~mem[i].connected

\* the number of on_disconnected notifications of session i
Disconnects(h, i) == Count(h[i].log, "disconnected")

\* C17: when the reactor stops, every session that is still connected emits
\* on_disconnected exactly once, and a session that is not connected (its
\* on_disconnected has fired, or it never connected) emits none.
C17_StopNotifiesOnce ==
    [][(running /\ ~running' /\ ~crashed') =>
          \A i \in Slots :
              Disconnects(hist', i) - Disconnects(hist, i)
                  = IF allocated(World, i) /\ mem[i].connected THEN 1 ELSE 0]_vars

\* C19: disconnect_inactive on a connected session that has been inactive
\* for longer than the threshold closes it and fires on_disconnected exactly
\* once; on a connected session that has not, it changes nothing and fires
\* nothing.  The time of the last activity is refreshed when the session
\* connects and when a read completes.
C19_DisconnectInactive ==
    [][\A i \in Slots :
          /\ (/\ used'.sweeps = used.sweeps + 1
              /\ allocated(World, i) /\ mem[i].connected) =>
                 IF mem[i].idle
                 THEN /\ ~mem'[i].connected
                      /\ io'[i].sock # "connected"
                      /\ hist'[i].log = Append(hist[i].log, "disconnected")
                 ELSE mem'[i] = mem[i] /\ io'[i] = io[i] /\ hist'[i] = hist[i]
          /\ (/\ mem'[i].connected
              /\ ~mem[i].connected \/ Len(free_list') < Len(free_list)) =>
                 ~mem'[i].idle
          /\ (/\ mem'[i].readbuf # mem[i].readbuf
              /\ Len(free_list') >= Len(free_list)) =>
                 ~mem'[i].idle]_vars

\* the case of C19: a session connected, stayed inactive, and the sweep of
\* disconnect_inactive closed it while its read was pending
C19_Witness ==
    \E i \in Slots :
        /\ used.sweeps = 1
        /\ mem[i].idle /\ ~mem[i].connected
        /\ hist[i].log = <<"connected", "disconnected">>
        /\ io[i].rd_dead = 1 /\ io[i].sock = "closed"

\* the classes whose handlers were invoked for event n, in the order of the
\* invocations
RECURSIVE InvokedFor(_, _)
InvokedFor(calls, n) ==
    IF calls = <<>> THEN <<>>
    ELSE (IF Head(calls).n = n THEN <<Head(calls).to>> ELSE <<>>)
             \o InvokedFor(Tail(calls), n)

\* class m declares a handler that matches event e
Declares(m, e) ==
    IF e.ev = "message"
    THEN \E t \in app.decl[m] \cap DtTypes : identify(t) = e.id
    ELSE e.ev \in app.decl[m]

\* the classes that declare a handler matching event e: the module, then the
\* components in the order of their declaration
RECURSIVE DeclaringFrom(_, _)
DeclaringFrom(ms, e) ==
    IF ms = <<>> THEN <<>>
    ELSE (IF Declares(Head(ms), e) THEN <<Head(ms)>> ELSE <<>>)
             \o DeclaringFrom(Tail(ms), e)

\* event n went to the module first and then to the components in order, to
\* those that declare a matching handler and to no other, each with the
\* connection and the payload type of the event
FannedOut(n) ==
    /\ InvokedFor(app.calls, n) = DeclaringFrom(MemberOrder, app.events[n])
    /\ \A k \in 1..Len(app.calls) :
           app.calls[k].n = n =>
              /\ app.calls[k].ev = app.events[n].ev
              /\ app.calls[k].conn = app.events[n].conn
              /\ app.events[n].ev = "message" =>
                     identify(app.calls[k].type) = app.events[n].id

\* the indices of the events named ev
EventsNamed(ev) == { n \in 1..Len(app.events) : app.events[n].ev = ev }

C20_ModuleThenComponents ==
    \A n \in 1..Len(app.events) :
        app.events[n].ev \in {"message", "connected", "disconnected"} =>
            /\ FannedOut(n)
            /\ \A k \in 2..Len(app.calls) :
                   app.calls[k - 1].n = n => app.calls[k].n >= n

\* the case of C20: a frame whose type the module and the second component
\* handle and the first component does not
C20_Witness ==
    \E n \in 1..Len(app.events) :
        /\ app.events[n].ev = "message"
        /\ Declares("module", app.events[n])
        /\ ~Declares("A", app.events[n])
        /\ Declares("B", app.events[n])
        /\ InvokedFor(app.calls, n) = <<"module", "B">>

\* the frames sent while event n was handled
RECURSIVE SentFor(_, _)
SentFor(sent, n) ==
    IF sent = <<>> THEN <<>>
    ELSE (IF Head(sent).n = n THEN <<Head(sent)>> ELSE <<>>) \o SentFor(Tail(sent), n)

\* the frames the handlers invoked for event n returned, in the order of the
\* invocations: for each handler that returned a payload, the frame that
\* carries it to the connection of the event
RECURSIVE RepliesFor(_, _)
RepliesFor(calls, n) ==
    IF calls = <<>> THEN <<>>
    ELSE LET c == Head(calls)
             r == IF c.ev = "message" THEN app.ret[c.to][c.type] ELSE "void"
             k == CHOOSE k \in 1..Len(Protocol) : Protocol[k] = r
         IN  (IF c.n = n /\ r # "void"
              THEN <<[conn |-> c.conn, tag |-> k - 1, payload |-> r, n |-> n]>>
              ELSE <<>>) \o RepliesFor(Tail(calls), n)

\* C21: when an onMessage handler of the module or of a component returns a
\* payload, exactly one frame that carries it, tagged with the position of
\* its type in the module's protocol, is sent on the connection of the
\* request; a handler that returns void sends nothing.
C21_ImplicitReply ==
    \A n \in 1..Len(app.events) :
        /\ SentFor(app.sent, n) = RepliesFor(app.calls, n)
        /\ \A k \in 1..Len(app.sent) :
               app.sent[k].n = n => app.sent[k].conn = app.events[n].conn

\* the case of C21: a frame from the outbound connection that was answered
\* with a payload of another type, and a frame whose handlers returned void
C21_Witness ==
    \E n \in 1..Len(app.events) :
        /\ app.events[n].ev = "message" /\ app.events[n].conn = "server"
        /\ \E k \in 1..Len(app.sent) :
               /\ app.sent[k].n = n
               /\ app.sent[k].payload = "T1" /\ app.sent[k].tag = 2
        /\ \E m \in 1..Len(app.events) :
               /\ app.events[m].ev = "message" /\ app.events[m].id = 2
               /\ InvokedFor(app.calls, m) # <<>>
               /\ SentFor(app.sent, m) = <<>>

\* C30: a frame whose payload fails to decode is dropped without a call of
\* its handler, no exception leaves the handler of the read, and the event
\* loop keeps running, so that later frames are still processed.
C30_DecodeErrorDropped ==
    /\ ~app.thrown
    /\ app.phase # "thrown"
    /\ \A n \in 1..Len(app.events) :
           app.events[n].buf = "bad" => InvokedFor(app.calls, n) = <<>>

\* C24: identify returns the zero-based position of the type in the
\* protocol's declared list, identify on a subprotocol returns for each of its
\* types the tag of the parent protocol, and distinct types of a protocol have
\* distinct tags.
C24_Identify ==
    /\ \A k \in 1..Len(probe.P) :
           /\ probe.tag[k] \in 0..(Len(probe.P) - 1)
           /\ probe.P[probe.tag[k] + 1] = probe.P[k]
           /\ \A j \in 1..probe.tag[k] : probe.P[j] # probe.P[k]
    /\ \A j, k \in 1..Len(probe.P) :
           probe.P[j] # probe.P[k] => probe.tag[j] # probe.tag[k]
    /\ \A k \in 1..Len(probe.Ms), j \in 1..Len(probe.P) :
           probe.Ms[k] = probe.P[j] => probe.subtag[k] = probe.tag[j]

\* the case of C24: a subprotocol that leaves out the first two types of its
\* protocol
C24_Witness ==
    /\ Len(probe.P) = 3 /\ Cardinality(Range(probe.P)) = 3
    /\ probe.Ms = <<probe.P[3]>>
    /\ probe.subtag = <<2>>

\* the payload type with tag id in the client's subprotocol, "none" if there
\* is none
TypeOf(id) ==
    IF \E t \in DtTypes : subprotocol(Protocol, DtOrder, t) = id
    THEN CHOOSE t \in DtTypes : subprotocol(Protocol, DtOrder, t) = id
    ELSE "none"

\* the step is the arrival of a frame at the async client
FrameArrives == Len(dt'.arrived) = Len(dt.arrived) + 1

\* the step is the return of wait_message
WaitReturns == Len(dt'.got) = Len(dt.got) + 1

\* C22: on an async client a frame whose type has a queued receive() handler
\* is given to the oldest handler of that type and is not queued; a frame of a
\* protocol type without a handler is appended to the ambient queue; and
\* wait_message<T>() returns the oldest queued frame of type T, removing that
\* frame only and leaving the others in arrival order.
C22_AmbientQueue ==
    [][ /\ FrameArrives =>
            LET id == dt'.arrived[Len(dt'.arrived)]
                t  == TypeOf(id)
            IN  t # "none" =>
                  IF dt.queue[t] # <<>>
                  THEN /\ dt'.calls = Append(dt.calls,
                              [h |-> dt.subs[t][Len(dt.subs[t]) - Len(dt.queue[t]) + 1],
                               t |-> t, kind |-> "msg"])
                       /\ dt'.ambient = dt.ambient
                  ELSE /\ dt'.calls = dt.calls
                       /\ dt'.ambient =
                              Append(dt.ambient, [id |-> id, n |-> Len(dt'.arrived)])
        /\ WaitReturns =>
            LET g == dt'.got[Len(dt'.got)]
            IN  \E i \in 1..Len(dt.ambient) :
                   /\ dt.ambient[i] = g
                   /\ \A j \in 1..(i - 1) : dt.ambient[j].id # g.id
                   /\ dt'.ambient = SubSeq(dt.ambient, 1, i - 1)
                                       \o SubSeq(dt.ambient, i + 1, Len(dt.ambient))
                   /\ \A j \in 1..(Len(dt'.ambient) - 1) :
                          dt'.ambient[j].n < dt'.ambient[j + 1].n
                   /\ dt'.calls = dt.calls
      ]_vars

\* the case of C22: a frame was given to a handler, and wait_message returned
\* the second frame that arrived while the first, of another type, is still
\* queued
C22_Witness ==
    /\ \E k \in 1..Len(dt.calls) : dt.calls[k].kind = "msg"
    /\ \E k \in 1..Len(dt.got) : dt.got[k].n = 2
    /\ \E k \in 1..Len(dt.ambient) : dt.ambient[k].n = 1

\* the step is the arrival of a frame at the application
AppFrameArrives ==
    /\ Len(app'.events) = Len(app.events) + 1
    /\ app'.events[Len(app'.events)].ev = "message"

\* C23: a frame whose tag matches no payload type of the receiver's
\* subprotocol invokes no handler of the module, of a component or of a
\* subscriber, causes no reply and no error and leaves the session connected;
\* on an async client it is not placed on the ambient queue either.
C23_UnknownTagDropped ==
    [][ /\ (AppFrameArrives /\ TypeOf(app'.events[Len(app'.events)].id) = "none") =>
             /\ app'.calls = app.calls
             /\ app'.sent = app.sent
             /\ ~app'.thrown
             /\ app'.phase = app.phase
             /\ app'.conns = app.conns
        /\ (FrameArrives /\ TypeOf(dt'.arrived[Len(dt'.arrived)]) = "none") =>
             /\ dt'.calls = dt.calls
             /\ dt'.queue = dt.queue
             /\ dt'.pending = dt.pending
             /\ dt'.asserts = dt.asserts
             /\ dt'.ambient = dt.ambient
      ]_vars

\* the case of C23: an async client with a queued handler received a frame
\* of a type of the parent protocol that its subprotocol leaves out and a
\* frame of no type of the protocol, after a frame it queued
C23_Witness ==
    /\ \E n \in 1..Len(dt.arrived) : dt.arrived[n] = 0
    /\ \E n \in 1..Len(dt.arrived) : dt.arrived[n] = Len(Protocol)
    /\ \E t \in DtTypes : dt.queue[t] # <<>>
    /\ Len(dt.ambient) = 1

\* C25: the handler of a Timer is not invoked while the timer is paused; a
\* handler that pauses the timer during its execution is not re-armed; an
\* invocation after resume() comes from the wait that resume() armed, one
\* period later; the handler is re-armed while the timer is not paused; and a
\* timer has at most one live wait.
C25_TimerPauseResume ==
    /\ \A n \in 1..Len(tm.fired) :
           /\ ~tm.fired[n].paused
           /\ tm.fired[n].act = "pause" => ~tm.fired[n].rearmed
           /\ tm.fired[n].act = "none" => tm.fired[n].rearmed
           /\ tm.fired[n].w = tm.fired[n].newest
    /\ Cardinality({ k \in 1..Len(tm.waits) : tm.waits[k] = "pending" }) <= 1

\* the positions of the newlines of a text
NlPos(text) == { k \in 1..Len(text) : text[k] = "nl" }

\* the i-th line of a text that has at least i newlines
Line(text, i) ==
    LET e == CHOOSE k \in NlPos(text) :
                 Cardinality({ j \in NlPos(text) : j <= k }) = i
        b == IF i = 1 THEN 0
             ELSE CHOOSE k \in NlPos(text) :
                      Cardinality({ j \in NlPos(text) : j <= k }) = i - 1
    IN  SubSeq(text, b + 1, e - 1)

\* a line without its leading and trailing blanks
StripBlanks(s) ==
    LET nb == { k \in 1..Len(s) : s[k] # "sp" }
    IN  IF nb = {} THEN <<>>
        ELSE SubSeq(s, CHOOSE k \in nb : \A j \in nb : k <= j,
                       CHOOSE k \in nb : \A j \in nb : k >= j)

\* C26: each async_read request of the stdin reader has its handler called
\* at most once, requests are served in the order they were made, the i-th
\* request is called with the i-th line of the input (without the blanks
\* around it), and no more lines are dispatched than requests were made.
C26_OneLinePerRequest ==
    /\ \A j, k \in 1..Len(rd.calls) : j < k => rd.calls[j].req < rd.calls[k].req
    /\ \A k \in 1..Len(rd.calls) :
           /\ rd.calls[k].req \in 1..rd.nreq
           /\ rd.calls[k].req <= Cardinality(NlPos(rd.text))
           /\ rd.calls[k].raw = StripBlanks(Line(rd.text, rd.calls[k].req))
    /\ \A k \in 1..Len(rd.posted) :
           /\ rd.posted[k].req = Len(rd.calls) + k
           /\ rd.posted[k].req <= Cardinality(NlPos(rd.text))
           /\ rd.posted[k].raw = StripBlanks(Line(rd.text, rd.posted[k].req))
    /\ Len(rd.calls) + Len(rd.posted) <= rd.nreq

\* the case of C26: two requests were served with the two lines of the text,
\* which differ, and the stream has been read to its end
C26_Witness ==
    /\ Len(rd.calls) = 2
    /\ rd.calls[1].raw # rd.calls[2].raw
    /\ Cardinality(NlPos(rd.text)) = 2
    /\ rd.stream = <<>>

\* C27: a stdin command handler runs on the thread that runs the io_service,
\* never on the worker thread, and the two threads share nothing but the
\* request queue under its mutex and the atomic counters: the reactor never
\* touches the stream while the worker is reading it.
C27_ReactorThreadOnly ==
    /\ \A k \in 1..Len(rd.calls) : rd.calls[k].thr = "reactor"
    /\ rd.unsync = {}

\* the requests made whose handler has not run
PendingRequests == rd.nreq - Len(rd.calls)

\* a keepalive wait is outstanding: pending, or expired with its completion
\* handler queued on the io_service
KeepAliveOutstanding ==
    \E k \in 1..Len(rd.waits) :
        \/ rd.waits[k] = "pending"
        \/ rd.waits[k] = "expired" /\ k \in Range(rd.ready)

\* C28: while a stdin read request is pending and the reader is not
\* terminated a keepalive wait is outstanding, so the event loop has work
\* until the handler has run; a keepalive completion that finds no request
\* pending arms no new wait.
C28_KeepAlive ==
    /\ []((PendingRequests > 0 /\ ~rd.terminate_) => KeepAliveOutstanding)
    /\ [][ (rd.ready # <<>> /\ rd'.ready = Tail(rd.ready) /\ PendingRequests = 0)
             => Len(rd'.waits) = Len(rd.waits) ]_vars

\* the case of C28: a request is pending, and a keepalive wait that expired
\* while it was pending has been armed again by its completion handler
C28_Witness ==
    /\ PendingRequests > 0 /\ ~rd.terminate_
    /\ Len(rd.waits) > 1 + rd.nreq
    /\ rd.waits[Len(rd.waits)] = "pending"

\* C29: after a failed connect of an outbound session one new attempt is
\* started, and only when the backoff timer armed for the failure has
\* expired, not when its wait is cancelled or the timer destroyed; at no time
\* are two attempts or two backoff waits of one session in flight.
C29_RetryAfterBackoff ==
    \A i \in Slots :
        /\ hist[i].waits \subseteq {"expired"}
        /\ io[i].timers + io[i].conn_inprog <= 1

\* the handlers queued in the table, over all types (from type DtOrder[k] on)
RECURSIVE QueuedFrom(_, _)
QueuedFrom(d, k) ==
    IF k > Len(DtOrder) THEN 0
    ELSE Len(d.queue[DtOrder[k]]) + QueuedFrom(d, k + 1)

\* C33: after any sequence of subscribe, dispatch and cancel, subscriptions
\* made inside handlers included, the counter pending_ equals the number of
\* handlers queued over all types, so done() is true exactly when no handler
\* is queued.
C33_PendingCountsQueued ==
    /\ dt.pending = QueuedFrom(dt, 1)
    /\ done(dt) <=> \A t \in DtTypes : dt.queue[t] = <<>>

\* the step delivers on_disconnected of the outbound session to its
\* AsyncHandler (the session reconnects after every such notification)
AhDisconnectNotified ==
    dt.owner = "AsyncHandler" /\ dt.conn /\ ~dt'.conn /\ ~dt'.connected

\* C31: every disconnect notification of an outbound session cancels the
\* subscriptions pending on its AsyncHandler, whether or not the session
\* reconnects afterwards: each queued handler is invoked once, with the
\* error, and no handler stays queued across the reconnect.
C31_CancelledOnDisconnect ==
    [][ AhDisconnectNotified =>
          /\ \A t \in DtTypes : dt'.queue[t] = <<>>
          /\ \A h \in QueuedHandlers(dt) :
                /\ { k \in 1..Len(dt.calls) : dt.calls[k].h = h } = {}
                /\ \E k \in (Len(dt.calls) + 1)..Len(dt'.calls) :
                      /\ dt'.calls[k].h = h /\ dt'.calls[k].kind = "err"
                      /\ \A j \in 1..Len(dt'.calls) :
                            dt'.calls[j].h = h => j = k
      ]_vars

\* the case of C31: a handler subscribed while the session was connected was
\* invoked with the error at the disconnect, and the session has connected
\* again with nothing queued
C31_Witness ==
    /\ dt.owner = "AsyncHandler" /\ dt.conn /\ dt.connected
    /\ \E k \in 1..Len(dt.calls) : dt.calls[k].kind = "err" /\ dt.calls[k].h \in dt.lost
    /\ \A t \in DtTypes : dt.queue[t] = <<>>

\* C31 as stated: a disconnect that is followed by reconnection leaves the
\* pending subscriptions queued.
C31_SurviveReconnect ==
    [][ AhDisconnectNotified => \A t \in DtTypes : dt'.queue[t] = dt.queue[t] ]_vars

\* C36: send() on a session whose connected_ is false (never connected,
\* closed or killed) appends nothing to the write buffer, schedules no
\* write and delivers no notification: nothing of the session changes.
C36_SendNotConnectedNoop ==
    \A i \in Slots :
       ~mem[i].connected =>
          send(World, i) = [World EXCEPT !.hist[i].dropped = TRUE]

\* send() was called on a session that had been connected and was not any
\* more; none of its frames was accepted after that
C36_Witness ==
    \E i \in Slots :
       /\ allocated(World, i) /\ ~mem[i].connected
       /\ hist[i].dropped
       /\ \E k \in 1..Len(hist[i].log) : hist[i].log[k] \in {"disconnected", "kill"}
       /\ mem[i].writebuf.buf = <<<<>>, <<>>>>

\* C39: parse_read_buffer terminates for every content of the read buffer:
\* no read completion enters a loop it never leaves.
C39_ParseTerminates == \A i \in Slots : ~hist[i].spin

\* C34: whenever the write path calls flip(), the buffer that becomes
\* current is empty: it holds no frame of an earlier flush.
C34_FlipToEmpty == \A i \in Slots : ~hist[i].stale

\* C37: once a client session has been removed from the pool, no code of it
\* runs any more: no operation is scheduled on it, no notification comes from
\* it and none of its completion handlers goes on after the removal.
C37_NoUseAfterRemoval == \A i \in Slots : ~hist[i].uaf

\* C38: handle_disconnected_session runs once at most for a client session:
\* its assertion !already_disconnected_ never fails.
C38_DisconnectedSessionOnce ==
    \A i \in Slots : "!already_disconnected_" \notin hist[i].asserts

\* C40: run() goes on while done() is false, so it returns once every
\* handler subscribed with receive() has been invoked, with a message or
\* with the error of a cancellation: then done() is true.
C40_RunReturns ==
    (\A h \in 1..dt.nsub : CallsOf(h) # {}) => done(dt)

\* what grow_capacity() makes of buffer rb: the unread bytes are the same;
\* with tail > 0 they are moved to offset 0, else a full buffer gets twice
\* the capacity; free capacity is left in any case
GrowsWell(rb) ==
    LET g == grow_capacity(rb)
    IN  /\ g.data = rb.data
        /\ g.head - g.tail = rb.head - rb.tail
        /\ g.tail = 0
        /\ g.cap = IF rb.tail = 0 /\ rb.head = rb.cap THEN 2 * rb.cap ELSE rb.cap
        /\ free_capacity(g) > 0

C32_AllocatedTellsLive ==
    /\ ~pool.dup
    /\ \A k \in 1..Len(pool.asked) :
          pool.asked[k].res = IF pool.asked[k].live THEN "true" ELSE "false"

====
